---- MODULE Spec2Model ----
(***************************************************************************)
(* Flash-Master: the review-scheduling and answer-grading engine.          *)
(*                                                                         *)
(*   src/src/utils/srs.ts        familiarity transitions, three schedulers *)
(*   src/src/components/StudyView.tsx, ReviewView.tsx   checkAnswer        *)
(*   src/src/utils/moedict.ts    phonetic lookup, cache, validation        *)
(*                                                                         *)
(* Time is counted in ticks of 2.4 seconds, the largest unit of which both *)
(* a minute (25 ticks) and a thousandth of a day (36 ticks) are whole      *)
(* multiples.  Fractional numbers of the source are kept as scaled         *)
(* integers; the scale is named where it is used.                          *)
(***************************************************************************)
EXTENDS Integers, Sequences, FiniteSets, TLC

VARIABLES
    fam,        \* the tier a chain of updateFamiliarity calls has reached
    wrongRun,   \* incorrect answers in a row at the end of that chain
    lastUpd,    \* the last updateFamiliarity call: arguments and result
    now,        \* the wall clock read by `new Date()`
    args,       \* arguments of calculateNextReview
    call,       \* the last calculateNextReview call: strategy, clock, result
    question,   \* currentQuestion of the study or review view
    userAnswer, \* the userAnswer state of the view
    graded,     \* the last checkAnswer call: the flow and its result
    cache,      \* MoedictAPI.cache: the characters it holds (Map keys)
    lookups,    \* the validateBopomofo calls, each with its position
    staleLookups, \* the calls that were waiting when clearCache last ran
    info,       \* a characterInfo that getCharacterInfo has returned
    typed,      \* the inputBopomofo validated against it
    verdict,    \* the last validateBopomofo result for info and typed
    pair,       \* two phonetic strings
    similarity, \* the last calculateSimilarity results for the pair
    learningRecords, \* the learningRecords state of DatabaseContext
    dueResult,  \* the last getDueLearningRecords call and what it returned
    view,       \* the study or review view: question, answer shown, modal
    pending,    \* handleFamiliaritySelect calls waiting for the store
    history,    \* per question, the graded results of its completed reviews
    reviewSession, \* the questions due at the start of the review session
                \* and those it has presented
    apiValidation, \* the apiValidation state of the study view
    validations \* the validateBopomofo calls of the study view under way

famVars == <<fam, wrongRun, lastUpd>>
schedVars == <<now, args, call>>
gradeVars == <<question, userAnswer, graded>>
moedictVars == <<cache, lookups, staleLookups>>
validateVars == <<info, typed, verdict>>
similarityVars == <<pair, similarity>>
recordVars == <<learningRecords, dueResult, view, pending, history, reviewSession>>
phoneticVars == <<apiValidation, validations>>
laterVars == <<validateVars, similarityVars, recordVars, phoneticVars>>
vars == <<fam, wrongRun, lastUpd, now, args, call, question, userAnswer, graded,
          cache, lookups, staleLookups, info, typed, verdict, pair, similarity,
          learningRecords, dueResult, view, pending, history, reviewSession,
          apiValidation, validations>>

(***************************************************************************)
(* Bounds of the model.                                                    *)
(***************************************************************************)
MaxTimeSpent == 11
MaxWrongRun == 4
MaxCount == 9
MaxStreak == 11
MaxNow == 2
MaxOptions == 3
MaxItems == 3
MaxAnswerLen == 3

Min(a, b) == IF a <= b THEN a ELSE b
Max(a, b) == IF a >= b THEN a ELSE b

(***************************************************************************)
(* FamiliarityLevel, in the order the specification lists the tiers.       *)
(***************************************************************************)
Familiarity ==
    {"unfamiliar", "unanswered", "somewhat-familiar", "familiar", "mastered"}

TierOrder ==
    <<"unfamiliar", "unanswered", "somewhat-familiar", "familiar", "mastered">>

Rank(f) == CHOOSE k \in 1..Len(TierOrder) : TierOrder[k] = f

Successor(f) == IF Rank(f) < Len(TierOrder) THEN TierOrder[Rank(f) + 1] ELSE f

(***************************************************************************)
(* updateFamiliarity (srs.ts 185-220).  timeSpent is in whole seconds.     *)
(***************************************************************************)
\* Variant: the two time thresholds taken as <= instead of <.
UpdateFamiliarityLateBoundary(currentFamiliarity, isCorrect, timeSpent) ==
    IF isCorrect
    THEN CASE currentFamiliarity = "unfamiliar" -> "somewhat-familiar"
           [] currentFamiliarity = "unanswered" -> "somewhat-familiar"
           [] currentFamiliarity = "somewhat-familiar" ->
                  IF timeSpent <= 10 THEN "familiar" ELSE "somewhat-familiar"
           [] currentFamiliarity = "familiar" ->
                  IF timeSpent <= 5 THEN "mastered" ELSE "familiar"
           [] currentFamiliarity = "mastered" -> "mastered"
           [] OTHER -> currentFamiliarity
    ELSE CASE currentFamiliarity = "unfamiliar" -> "unfamiliar"
           [] currentFamiliarity = "unanswered" -> "unfamiliar"
           [] currentFamiliarity = "somewhat-familiar" -> "unfamiliar"
           [] currentFamiliarity = "familiar" -> "somewhat-familiar"
           [] currentFamiliarity = "mastered" -> "familiar"
           [] OTHER -> currentFamiliarity

\* Variant: incorrect answers that do not step down from somewhat-familiar
\* and lift unfamiliar.
UpdateFamiliarityStuckOnWrong(currentFamiliarity, isCorrect, timeSpent) ==
    IF isCorrect
    THEN CASE currentFamiliarity = "unfamiliar" -> "somewhat-familiar"
           [] currentFamiliarity = "unanswered" -> "somewhat-familiar"
           [] currentFamiliarity = "somewhat-familiar" ->
                  IF timeSpent < 10 THEN "familiar" ELSE "somewhat-familiar"
           [] currentFamiliarity = "familiar" ->
                  IF timeSpent < 5 THEN "mastered" ELSE "familiar"
           [] currentFamiliarity = "mastered" -> "mastered"
           [] OTHER -> currentFamiliarity
    ELSE CASE currentFamiliarity = "unfamiliar" -> "unanswered"
           [] currentFamiliarity = "unanswered" -> "unfamiliar"
           [] currentFamiliarity = "somewhat-familiar" -> "somewhat-familiar"
           [] currentFamiliarity = "familiar" -> "somewhat-familiar"
           [] currentFamiliarity = "mastered" -> "familiar"
           [] OTHER -> currentFamiliarity

\* Variant: a correct answer lifts unanswered to familiar.
UpdateFamiliarityEagerPromotion(currentFamiliarity, isCorrect, timeSpent) ==
    IF isCorrect
    THEN CASE currentFamiliarity = "unfamiliar" -> "somewhat-familiar"
           [] currentFamiliarity = "unanswered" -> "familiar"
           [] currentFamiliarity = "somewhat-familiar" ->
                  IF timeSpent < 10 THEN "familiar" ELSE "somewhat-familiar"
           [] currentFamiliarity = "familiar" ->
                  IF timeSpent < 5 THEN "mastered" ELSE "familiar"
           [] currentFamiliarity = "mastered" -> "mastered"
           [] OTHER -> currentFamiliarity
    ELSE CASE currentFamiliarity = "unfamiliar" -> "unfamiliar"
           [] currentFamiliarity = "unanswered" -> "unfamiliar"
           [] currentFamiliarity = "somewhat-familiar" -> "unfamiliar"
           [] currentFamiliarity = "familiar" -> "somewhat-familiar"
           [] currentFamiliarity = "mastered" -> "familiar"
           [] OTHER -> currentFamiliarity

UpdateFamiliarity(currentFamiliarity, isCorrect, timeSpent) ==
    IF isCorrect
    THEN CASE currentFamiliarity = "unfamiliar" -> "somewhat-familiar"
           [] currentFamiliarity = "unanswered" -> "somewhat-familiar"
           [] currentFamiliarity = "somewhat-familiar" ->
                  IF timeSpent < 10 THEN "familiar" ELSE "somewhat-familiar"
           [] currentFamiliarity = "familiar" ->
                  IF timeSpent < 5 THEN "mastered" ELSE "familiar"
           [] currentFamiliarity = "mastered" -> "mastered"
           [] OTHER -> currentFamiliarity
    ELSE CASE currentFamiliarity = "unfamiliar" -> "unfamiliar"
           [] currentFamiliarity = "unanswered" -> "unfamiliar"
           [] currentFamiliarity = "somewhat-familiar" -> "unfamiliar"
           [] currentFamiliarity = "familiar" -> "somewhat-familiar"
           [] currentFamiliarity = "mastered" -> "familiar"
           [] OTHER -> currentFamiliarity

NoUpdate ==
    [called |-> FALSE, from |-> "unanswered", isCorrect |-> FALSE,
     timeSpent |-> 0, to |-> "unanswered"]

InitFam ==
    /\ fam \in Familiarity
    /\ wrongRun = 0
    /\ lastUpd = NoUpdate

\* One answer: the tier moves by updateFamiliarity.
Answer(isCorrect, timeSpent) ==
    /\ fam' = UpdateFamiliarity(fam, isCorrect, timeSpent)
    /\ wrongRun' = IF isCorrect THEN 0 ELSE Min(wrongRun + 1, MaxWrongRun)
    /\ lastUpd' = [called |-> TRUE, from |-> fam, isCorrect |-> isCorrect,
                   timeSpent |-> timeSpent, to |-> fam']

AnswerStep ==
    /\ \E isCorrect \in BOOLEAN, timeSpent \in 0..MaxTimeSpent :
           Answer(isCorrect, timeSpent)
    /\ UNCHANGED schedVars
    /\ UNCHANGED gradeVars
    /\ UNCHANGED moedictVars
    /\ UNCHANGED laterVars

(***************************************************************************)
(* Dates.  addMinutes and addDays are date-fns functions (srs.ts 2).       *)
(* addDays(date, amount) is date.setDate(date.getDate() + amount): the day *)
(* of the month is an integer, so a fractional amount is truncated         *)
(* (ECMAScript MakeDay applies ToIntegerOrInfinity; date-fns 2 truncates   *)
(* with toInteger before that).  A calendar day is taken as 24 hours.      *)
(* The amount of AddDays is given in thousandths of a day.                 *)
(***************************************************************************)
TicksPerMinute == 60000 \div 2400
TicksPerMilliDay == 86400 \div 2400
TicksPerDay == 1000 * TicksPerMilliDay

AddMinutes(date, amount) == date + amount * TicksPerMinute

\* Adding a number of days with its fractional part (what addDays does not do).
AddDaysFractional(date, amountMilli) == date + amountMilli * TicksPerMilliDay

\* Variant: the days are added to the start of the day of the date.
AddDaysFromMidnight(date, amountMilli) ==
    (date \div TicksPerDay) * TicksPerDay + (amountMilli \div 1000) * TicksPerDay

AddDays(date, amountMilli) == date + (amountMilli \div 1000) * TicksPerDay

\* Math.round of a non-negative quotient num/den: halves go up.
MathRound(num, den) == (2 * num + den) \div (2 * den)

(***************************************************************************)
(* SM2Algorithm.calculateNextReview (srs.ts 5-58).  easeFactor and         *)
(* streakMultiplier are kept in tenths.  The double products of the source *)
(* round like the exact ones for every streak and every ease factor the    *)
(* code can produce.                                                       *)
(***************************************************************************)
\* Variant: the two minute-based tiers fall through to the day-based formula.
SM2NoMinuteTiers(currentFamiliarity, correctCount, incorrectCount, streak, clock) ==
    LET baseInterval == CASE currentFamiliarity = "somewhat-familiar" -> 1
                          [] currentFamiliarity = "familiar" -> 3
                          [] currentFamiliarity = "mastered" -> 7
                          [] OTHER -> 1
        totalAttempts == correctCount + incorrectCount
        easeFactor ==
            IF totalAttempts > 0
            THEN IF 10 * correctCount >= 9 * totalAttempts THEN Min(25 + 1, 30)
                 ELSE IF 10 * correctCount >= 7 * totalAttempts THEN Max(25 - 1, 13)
                 ELSE Max(25 - 2, 13)
            ELSE 25
        streakMultiplier == Min(10 + streak, 20)
        finalInterval == MathRound(baseInterval * easeFactor * streakMultiplier, 100)
    IN  AddDays(clock, finalInterval * 1000)

SM2CalculateNextReview(currentFamiliarity, correctCount, incorrectCount, streak, clock) ==
    IF currentFamiliarity = "unfamiliar" THEN AddMinutes(clock, 1)
    ELSE IF currentFamiliarity = "unanswered" THEN AddMinutes(clock, 5)
    ELSE
    LET baseInterval == CASE currentFamiliarity = "somewhat-familiar" -> 1
                          [] currentFamiliarity = "familiar" -> 3
                          [] currentFamiliarity = "mastered" -> 7
                          [] OTHER -> 1
        totalAttempts == correctCount + incorrectCount
        easeFactor ==
            IF totalAttempts > 0
            THEN IF 10 * correctCount >= 9 * totalAttempts THEN Min(25 + 1, 30)
                 ELSE IF 10 * correctCount >= 7 * totalAttempts THEN Max(25 - 1, 13)
                 ELSE Max(25 - 2, 13)
            ELSE 25
        streakMultiplier == Min(10 + streak, 20)
        finalInterval == MathRound(baseInterval * easeFactor * streakMultiplier, 100)
    IN  AddDays(clock, finalInterval * 1000)

(***************************************************************************)
(* FSRSAlgorithm.calculateNextReview (srs.ts 61-125).                      *)
(* Math.pow(1.3, k) is kept in units of 1e-5 and Math.pow(d, -0.8) in      *)
(* units of 1e-6; their product with the seed, in units of 1e-4, is within *)
(* 3e-4 of the real value, and no real value of the source lies within     *)
(* 1.9e-3 of a rounding boundary, so Math.round gives the same integer.    *)
(***************************************************************************)
maximumInterval == 36500

RECURSIVE Pow13(_)
Pow13(k) == IF k = 0 THEN 100000 ELSE (Pow13(k - 1) * 13) \div 10

\* Math.pow(difficulty, -0.8) for the difficulties the code can produce
\* (difficulty in tenths).
PowNeg08(difficulty) ==
    CASE difficulty = 48 -> 285106
      [] difficulty = 50 -> 275946
      [] difficulty = 51 -> 271609
      [] difficulty = 53 -> 263378

\* a (units of 1e-4) times b (units of 1e-6), in units of 1e-4.
FixMul(a, b) == (a * (b \div 1000) + (a * (b % 1000)) \div 1000) \div 1000

FSRSSeed(currentFamiliarity) ==
    CASE currentFamiliarity = "unfamiliar" -> 1
      [] currentFamiliarity = "unanswered" -> 5
      [] currentFamiliarity = "somewhat-familiar" -> 20
      [] currentFamiliarity = "familiar" -> 50
      [] currentFamiliarity = "mastered" -> 100
      [] OTHER -> 25

\* Variant: the streak exponent without its cap of 10.
FSRSUncappedStreak(currentFamiliarity, correctCount, incorrectCount, streak, clock) ==
    LET totalAttempts == correctCount + incorrectCount
        difficulty ==
            IF totalAttempts > 0
            THEN IF 10 * correctCount >= 9 * totalAttempts THEN Max(50 - 2, 10)
                 ELSE IF 10 * correctCount >= 7 * totalAttempts THEN Min(50 + 1, 100)
                 ELSE Min(50 + 3, 100)
            ELSE 50
        stability == (FSRSSeed(currentFamiliarity) * Pow13(streak)) \div 100
        interval == Min(MathRound(FixMul(stability, PowNeg08(difficulty)), 10000),
                        maximumInterval)
    IN  AddDays(clock, interval * 1000)

FSRSCalculateNextReview(currentFamiliarity, correctCount, incorrectCount, streak, clock) ==
    LET totalAttempts == correctCount + incorrectCount
        difficulty ==
            IF totalAttempts > 0
            THEN IF 10 * correctCount >= 9 * totalAttempts THEN Max(50 - 2, 10)
                 ELSE IF 10 * correctCount >= 7 * totalAttempts THEN Min(50 + 1, 100)
                 ELSE Min(50 + 3, 100)
            ELSE 50
        stability == (FSRSSeed(currentFamiliarity) * Pow13(Min(streak, 10))) \div 100
        interval == Min(MathRound(FixMul(stability, PowNeg08(difficulty)), 10000),
                        maximumInterval)
    IN  AddDays(clock, interval * 1000)

(***************************************************************************)
(* SimpleSRSAlgorithm.calculateNextReview (srs.ts 128-179).  The three     *)
(* factors are kept in tenths, so their product is intervalDays in         *)
(* thousandths of a day, exactly.                                          *)
(***************************************************************************)
SimpleIntervalMilli(currentFamiliarity, correctCount, incorrectCount, streak) ==
    LET base == CASE currentFamiliarity = "unfamiliar" -> 1
                  [] currentFamiliarity = "unanswered" -> 5
                  [] currentFamiliarity = "somewhat-familiar" -> 10
                  [] currentFamiliarity = "familiar" -> 30
                  [] currentFamiliarity = "mastered" -> 70
                  [] OTHER -> 10
        totalAttempts == correctCount + incorrectCount
        byAccuracy ==
            IF totalAttempts > 0
            THEN IF 10 * correctCount >= 9 * totalAttempts THEN 15
                 ELSE IF 10 * correctCount < 6 * totalAttempts THEN 5
                 ELSE 10
            ELSE 10
        byStreak == IF streak > 0 THEN Min(10 + 2 * streak, 30) ELSE 10
    IN  base * byAccuracy * byStreak

SimpleCalculateNextReview(currentFamiliarity, correctCount, incorrectCount, streak, clock) ==
    AddDays(clock,
            SimpleIntervalMilli(currentFamiliarity, correctCount, incorrectCount, streak))

(***************************************************************************)
(* The scheduling calls: the arguments are drawn at the start, each        *)
(* strategy can be called on them at any clock value.                      *)
(***************************************************************************)
ArgSpace ==
    [familiarity : Familiarity, correctCount : 0..MaxCount,
     incorrectCount : 0..MaxCount, streak : 0..MaxStreak]

NoCall == [algo |-> "none", at |-> 0, nextReview |-> 0]

InitSched ==
    /\ now = 0
    /\ args \in ArgSpace
    /\ call = NoCall

CallSM2 ==
    /\ call' = [algo |-> "SM2", at |-> now,
                nextReview |-> SM2CalculateNextReview(args.familiarity,
                    args.correctCount, args.incorrectCount, args.streak, now)]
    /\ UNCHANGED <<now, args>>
    /\ UNCHANGED famVars
    /\ UNCHANGED gradeVars
    /\ UNCHANGED moedictVars
    /\ UNCHANGED laterVars

CallFSRS ==
    /\ call' = [algo |-> "FSRS", at |-> now,
                nextReview |-> FSRSCalculateNextReview(args.familiarity,
                    args.correctCount, args.incorrectCount, args.streak, now)]
    /\ UNCHANGED <<now, args>>
    /\ UNCHANGED famVars
    /\ UNCHANGED gradeVars
    /\ UNCHANGED moedictVars
    /\ UNCHANGED laterVars

CallSimple ==
    /\ call' = [algo |-> "Simple", at |-> now,
                nextReview |-> SimpleCalculateNextReview(args.familiarity,
                    args.correctCount, args.incorrectCount, args.streak, now)]
    /\ UNCHANGED <<now, args>>
    /\ UNCHANGED famVars
    /\ UNCHANGED gradeVars
    /\ UNCHANGED moedictVars
    /\ UNCHANGED laterVars

Tick ==
    /\ now < MaxNow
    /\ now' = now + 1
    /\ UNCHANGED <<args, call>>
    /\ UNCHANGED famVars
    /\ UNCHANGED gradeVars
    /\ UNCHANGED moedictVars
    /\ UNCHANGED laterVars

(***************************************************************************)
(* Questions and answers of checkAnswer                                    *)
(* (StudyView.tsx 101-147, ReviewView.tsx 74-101).                         *)
(* userAnswer is null or holds a value of the shape the question type      *)
(* takes: a sequence of option ids (multi-select), one option id, a        *)
(* boolean, or a sequence of 0-based indices (sort).                       *)
(***************************************************************************)
IdPool == <<"a", "b", "c", "d", "e">>

OptionIds == {IdPool[k] : k \in 1..MaxOptions}

SeqsUpTo(S, n) == UNION {[1..m -> S] : m \in 0..n}

MultipleChoiceQuestions ==
    {[type |-> "multiple-choice", allowMultiple |-> m,
      options |-> [k \in 1..n |-> [id |-> IdPool[k], isCorrect |-> flags[k]]]] :
        m \in BOOLEAN, n \in {MaxOptions}, flags \in [1..MaxOptions -> BOOLEAN]}

SortQuestions ==
    {[type |-> "sort",
      items |-> [k \in 1..Len(order) |-> [id |-> IdPool[k], correctOrder |-> order[k]]]] :
        order \in SeqsUpTo(1..MaxItems, MaxItems) \ {<<>>}}

TrueFalseQuestions == {[type |-> "true-false", correctAnswer |-> b] : b \in BOOLEAN}

Questions == MultipleChoiceQuestions \cup SortQuestions \cup TrueFalseQuestions

Null == [kind |-> "null"]

AnswersFor(q) ==
    CASE q.type = "multiple-choice" /\ q.allowMultiple ->
             {[kind |-> "ids", v |-> a] : a \in SeqsUpTo(OptionIds, MaxAnswerLen)}
      [] q.type = "multiple-choice" /\ ~q.allowMultiple ->
             {[kind |-> "id", v |-> a] : a \in OptionIds}
      [] q.type = "sort" ->
             {[kind |-> "indices", v |-> a] :
                  a \in SeqsUpTo(0..(MaxItems - 1), MaxAnswerLen)}
      [] q.type = "true-false" -> {[kind |-> "bool", v |-> a] : a \in BOOLEAN}

\* Array.prototype.includes
Includes(seq, x) == \E k \in 1..Len(seq) : seq[k] = x

\* options.filter(opt => opt.isCorrect).map(opt => opt.id)
RECURSIVE CorrectOptions(_)
CorrectOptions(options) ==
    IF options = <<>> THEN <<>>
    ELSE IF Head(options).isCorrect
         THEN <<Head(options).id>> \o CorrectOptions(Tail(options))
         ELSE CorrectOptions(Tail(options))

\* Array.prototype.sort((a, b) => a.correctOrder - b.correctOrder): stable.
RECURSIVE InsertByOrder(_, _)
InsertByOrder(sorted, item) ==
    IF sorted = <<>> THEN <<item>>
    ELSE IF item.correctOrder < Head(sorted).correctOrder
         THEN <<item>> \o sorted
         ELSE <<Head(sorted)>> \o InsertByOrder(Tail(sorted), item)

RECURSIVE SortByCorrectOrder(_)
SortByCorrectOrder(items) ==
    IF items = <<>> THEN <<>>
    ELSE InsertByOrder(SortByCorrectOrder(SubSeq(items, 1, Len(items) - 1)),
                       items[Len(items)])

\* selectedOptions.length === correctOptions.length &&
\* selectedOptions.every(id => correctOptions.includes(id))
CheckMultiSelect(q, selectedOptions) ==
    LET correctOptions == CorrectOptions(q.options)
    IN  /\ Len(selectedOptions) = Len(correctOptions)
        /\ \A k \in 1..Len(selectedOptions) :
               Includes(correctOptions, selectedOptions[k])

\* options.find(opt => opt.isCorrect): the first one, if any.
CheckSingleSelect(q, selectedOption) ==
    LET correctOptions == CorrectOptions(q.options)
    IN  IF correctOptions # <<>> THEN selectedOption = Head(correctOptions)
        ELSE FALSE

\* items.sort(...).map((_, index) => index), compared in length and element
\* for element.
CheckSortStudy(q, userOrder) ==
    LET sorted == SortByCorrectOrder(q.items)
        correctOrder == [k \in 1..Len(sorted) |-> k - 1]
    IN  /\ Len(userOrder) = Len(correctOrder)
        /\ \A k \in 1..Len(userOrder) : userOrder[k] = correctOrder[k]

\* checkAnswer of StudyView (101-147)
CheckAnswerStudy(q, answer) ==
    IF answer = Null THEN FALSE
    ELSE CASE q.type = "multiple-choice" ->
                  IF q.allowMultiple THEN CheckMultiSelect(q, answer.v)
                  ELSE CheckSingleSelect(q, answer.v)
           [] q.type = "true-false" -> answer.v = q.correctAnswer
           [] q.type = "sort" -> CheckSortStudy(q, answer.v)
           [] OTHER -> FALSE

\* checkAnswer of ReviewView (74-101)
CheckAnswerReview(q, answer) ==
    IF answer = Null THEN FALSE
    ELSE CASE q.type = "multiple-choice" ->
                  IF q.allowMultiple THEN CheckMultiSelect(q, answer.v)
                  ELSE CheckSingleSelect(q, answer.v)
           [] q.type = "true-false" -> answer.v = q.correctAnswer
           [] q.type = "sort" -> FALSE
           [] OTHER -> FALSE

\* What checkAnswer of StudyView leaves in the question: Array.prototype.sort
\* sorts currentQuestion.items in place.
QuestionAfterStudyCheck(q, answer) ==
    IF answer # Null /\ q.type = "sort"
    THEN [q EXCEPT !.items = SortByCorrectOrder(q.items)]
    ELSE q

NotGraded == [flow |-> "none", isCorrect |-> FALSE]

InitGrade ==
    /\ question \in Questions
    /\ userAnswer \in {Null} \cup AnswersFor(question)
    /\ graded = NotGraded

GradeStudy ==
    /\ graded' = [flow |-> "study", isCorrect |-> CheckAnswerStudy(question, userAnswer)]
    /\ question' = QuestionAfterStudyCheck(question, userAnswer)
    /\ UNCHANGED userAnswer
    /\ UNCHANGED <<famVars, schedVars, moedictVars>>
    /\ UNCHANGED laterVars

GradeReview ==
    /\ graded' = [flow |-> "review", isCorrect |-> CheckAnswerReview(question, userAnswer)]
    /\ UNCHANGED <<question, userAnswer>>
    /\ UNCHANGED <<famVars, schedVars, moedictVars>>
    /\ UNCHANGED laterVars

(***************************************************************************)
(* MoedictAPI (moedict.ts).                                                *)
(* A phonetic string is a sequence of symbols; "2", "3", "4", "5" stand    *)
(* for the four tone marks.  A number with a fraction (a confidence) is a  *)
(* pair num/den.                                                           *)
(*                                                                         *)
(* The lookup service answers a character with the same body every time    *)
(* (Dictionary); a request can also fail.  The bodies cover the shapes a   *)
(* JSON body can have: heteronyms with readings, heteronyms without a      *)
(* reading, an empty list, no list at all, JSON null, and a list that      *)
(* holds something that is not an object.                                  *)
(***************************************************************************)
ToneMarks == {"2", "3", "4", "5"}

Characters == {"ma", "hao", "nob", "empty", "noh", "null", "bad"}

Inputs == {<<"M", "A", "2">>, <<"H", "A", "O">>}

Heteronym(b) == [isObject |-> TRUE, b |-> b]

Body(hKind, h) == [isNull |-> FALSE, hKind |-> hKind, h |-> h]

JsonNull == [isNull |-> TRUE, hKind |-> "missing", h |-> <<>>]

Dictionary(character) ==
    CASE character = "ma" -> Body("array", <<Heteronym(<<"M", "A", "2">>)>>)
      [] character = "hao" ->
             Body("array", <<Heteronym(<<"H", "A", "O", "3">>),
                             Heteronym(<<"H", "A", "O", "4">>)>>)
      [] character = "nob" -> Body("array", <<Heteronym(<<>>)>>)
      [] character = "empty" -> Body("array", <<>>)
      [] character = "noh" -> Body("missing", <<>>)
      [] character = "null" -> JsonNull
      [] character = "bad" ->
             Body("array", <<[isObject |-> FALSE, b |-> <<>>]>>)

FetchFailures == {"network error", "status not ok", "body not JSON"}

\* normalizeBopomofo (116-119): the tone marks are removed.
RECURSIVE NormalizeBopomofo(_)
NormalizeBopomofo(bopomofo) ==
    IF bopomofo = <<>> THEN <<>>
    ELSE IF Head(bopomofo) \in ToneMarks THEN NormalizeBopomofo(Tail(bopomofo))
         ELSE <<Head(bopomofo)>> \o NormalizeBopomofo(Tail(bopomofo))

\* levenshteinDistance (138-161).  A row of the matrix is a sequence whose
\* element i + 1 is matrix[j][i].  MatrixRow fills row j from left to right
\* (150-157); MatrixRows does so for j = 1 .. str2.length (149).
RECURSIVE MatrixRow(_, _, _, _)
MatrixRow(str1, symbol, above, row) ==
    IF Len(row) = Len(str1) + 1 THEN row
    ELSE LET i == Len(row)
             indicator == IF str1[i] = symbol THEN 0 ELSE 1
         IN  MatrixRow(str1, symbol, above,
                       Append(row, Min(Min(row[i] + 1, above[i + 1] + 1),
                                       above[i] + indicator)))

RECURSIVE MatrixRows(_, _, _, _)
MatrixRows(str1, str2, j, above) ==
    IF j > Len(str2) THEN above
    ELSE MatrixRows(str1, str2, j + 1, MatrixRow(str1, str2[j], above, <<j>>))

LevenshteinDistance(str1, str2) ==
    MatrixRows(str1, str2, 1, [i \in 1..(Len(str1) + 1) |-> i - 1])[Len(str1) + 1]

Frac(num, den) == [num |-> num, den |-> den]
FracLess(x, y) == x.num * y.den < y.num * x.den
FracEq(x, y) == x.num * y.den = y.num * x.den

\* Variant: the distance divided by the length of the first string.
CalculateSimilarityByFirstLength(bopomofo1, bopomofo2) ==
    LET normalized1 == NormalizeBopomofo(bopomofo1)
        normalized2 == NormalizeBopomofo(bopomofo2)
        distance == LevenshteinDistance(normalized1, normalized2)
        firstLength == Len(normalized1)
    IN  IF normalized1 = normalized2 THEN Frac(1, 1)
        ELSE IF firstLength = 0 THEN Frac(0, 1)
        ELSE Frac(firstLength - distance, firstLength)

\* Variant: the distance is divided by the length of the shorter string.
CalculateSimilarityOverShorter(bopomofo1, bopomofo2) ==
    LET normalized1 == NormalizeBopomofo(bopomofo1)
        normalized2 == NormalizeBopomofo(bopomofo2)
        distance == LevenshteinDistance(normalized1, normalized2)
        minLength == Min(Len(normalized1), Len(normalized2))
    IN  IF normalized1 = normalized2 THEN Frac(1, 1)
        ELSE IF minLength = 0 THEN Frac(0, 1)
        ELSE Frac(minLength - distance, minLength)

\* calculateSimilarity (122-135)
CalculateSimilarity(bopomofo1, bopomofo2) ==
    LET normalized1 == NormalizeBopomofo(bopomofo1)
        normalized2 == NormalizeBopomofo(bopomofo2)
        distance == LevenshteinDistance(normalized1, normalized2)
        maxLength == Max(Len(normalized1), Len(normalized2))
    IN  IF normalized1 = normalized2 THEN Frac(1, 1)
        ELSE IF maxLength = 0 THEN Frac(0, 1)
        ELSE Frac(maxLength - distance, maxLength)

\* Variant: the last index holding x (lastIndexOf).
LastIndexOf(seq, x) ==
    IF \E k \in 1..Len(seq) : seq[k] = x
    THEN CHOOSE k \in 1..Len(seq) :
             seq[k] = x /\ \A j \in (k + 1)..Len(seq) : seq[j] # x
    ELSE 0

\* Array.prototype.indexOf: the first index (1-based here) holding x, 0 if none.
IndexOf(seq, x) ==
    IF \E k \in 1..Len(seq) : seq[k] = x
    THEN CHOOSE k \in 1..Len(seq) :
             seq[k] = x /\ \A j \in 1..(k - 1) : seq[j] # x
    ELSE 0

\* Variant: the last index attaining the maximum.
LastMaxSimilarityIndex(similarities) ==
    CHOOSE k \in 1..Len(similarities) :
        /\ \A j \in 1..Len(similarities) : ~FracLess(similarities[k], similarities[j])
        /\ \A j \in (k + 1)..Len(similarities) :
               ~FracEq(similarities[j], similarities[k])

\* Math.max(...similarities) and similarities.indexOf(maxSimilarity)
MaxSimilarityIndex(similarities) ==
    CHOOSE k \in 1..Len(similarities) :
        /\ \A j \in 1..Len(similarities) : ~FracLess(similarities[k], similarities[j])
        /\ \A j \in 1..(k - 1) : ~FracEq(similarities[j], similarities[k])

\* characterInfo.h.map(heteronym => heteronym.b).filter(Boolean): a reading
\* that is missing or empty is dropped.
RECURSIVE PossibleBopomofo(_)
PossibleBopomofo(h) ==
    IF h = <<>> THEN <<>>
    ELSE IF Head(h).b # <<>> THEN <<Head(h).b>> \o PossibleBopomofo(Tail(h))
         ELSE PossibleBopomofo(Tail(h))

Verdict(isCorrect, hasReading, correctBopomofo, confidence) ==
    [threw |-> FALSE, isCorrect |-> isCorrect, hasReading |-> hasReading,
     correctBopomofo |-> correctBopomofo, confidence |-> confidence]

LowestVerdict == Verdict(FALSE, FALSE, <<>>, Frac(0, 1))

\* A TypeError leaves validateBopomofo: the promise is rejected.
Thrown ==
    [threw |-> TRUE, isCorrect |-> FALSE, hasReading |-> FALSE,
     correctBopomofo |-> <<>>, confidence |-> Frac(0, 1)]

\* Variant: validateBopomofo without the exact-match return (68-76).
ValidateWithoutExactMatch(hasInfo, characterInfo, inputBopomofo) ==
    IF ~hasInfo \/ characterInfo.isNull \/ characterInfo.hKind = "missing"
       \/ Len(characterInfo.h) = 0
    THEN LowestVerdict
    ELSE IF \E k \in 1..Len(characterInfo.h) : ~characterInfo.h[k].isObject
    THEN Thrown
    ELSE
    LET possibleBopomofo == PossibleBopomofo(characterInfo.h)
        normalizedInput == NormalizeBopomofo(inputBopomofo)
        normalizedPossible ==
            [k \in 1..Len(possibleBopomofo) |-> NormalizeBopomofo(possibleBopomofo[k])]
        similarities ==
            [k \in 1..Len(possibleBopomofo) |->
                 CalculateSimilarity(inputBopomofo, possibleBopomofo[k])]
        bestMatchIndex == MaxSimilarityIndex(similarities)
    IN  IF Len(possibleBopomofo) = 0 THEN LowestVerdict
        ELSE IF Includes(normalizedPossible, normalizedInput)
        THEN Verdict(TRUE, TRUE,
                     possibleBopomofo[IndexOf(normalizedPossible, normalizedInput)],
                     Frac(4, 5))
        ELSE Verdict(FracLess(Frac(7, 10), similarities[bestMatchIndex]), TRUE,
                     possibleBopomofo[bestMatchIndex], similarities[bestMatchIndex])

\* validateBopomofo (44-102) from the point where getCharacterInfo has
\* returned characterInfo (hasInfo = FALSE for null).
ValidateBopomofoFrom(hasInfo, characterInfo, inputBopomofo) ==
    IF ~hasInfo \/ characterInfo.isNull \/ characterInfo.hKind = "missing"
       \/ Len(characterInfo.h) = 0
    THEN LowestVerdict
    ELSE IF \E k \in 1..Len(characterInfo.h) : ~characterInfo.h[k].isObject
    THEN Thrown
    ELSE
    LET possibleBopomofo == PossibleBopomofo(characterInfo.h)
        normalizedInput == NormalizeBopomofo(inputBopomofo)
        normalizedPossible ==
            [k \in 1..Len(possibleBopomofo) |-> NormalizeBopomofo(possibleBopomofo[k])]
        similarities ==
            [k \in 1..Len(possibleBopomofo) |->
                 CalculateSimilarity(inputBopomofo, possibleBopomofo[k])]
        bestMatchIndex == MaxSimilarityIndex(similarities)
    IN  IF Len(possibleBopomofo) = 0 THEN LowestVerdict
        ELSE IF Includes(possibleBopomofo, inputBopomofo)
        THEN Verdict(TRUE, TRUE, inputBopomofo, Frac(1, 1))
        ELSE IF Includes(normalizedPossible, normalizedInput)
        THEN Verdict(TRUE, TRUE,
                     possibleBopomofo[IndexOf(normalizedPossible, normalizedInput)],
                     Frac(4, 5))
        ELSE Verdict(FracLess(Frac(7, 10), similarities[bestMatchIndex]), TRUE,
                     possibleBopomofo[bestMatchIndex], similarities[bestMatchIndex])

(***************************************************************************)
(* The calls.  Two callers can have a validateBopomofo call under way at   *)
(* the same time; a call waits only at the fetch of getCharacterInfo.      *)
(*   how: "cache" (served from the cache), "fetched" (the request          *)
(*        succeeded) or the failure of the request.                        *)
(* staleLookups is not program state: it notes which of the waiting calls  *)
(* began before the last clearCache.                                       *)
(***************************************************************************)
Callers == {1, 2}

IdleLookup ==
    [pc |-> "idle", character |-> "ma", input |-> <<>>, how |-> "none",
     result |-> LowestVerdict]

InitMoedict ==
    /\ cache = {}
    /\ lookups = [id \in Callers |-> IdleLookup]
    /\ staleLookups = {}

\* validateBopomofo is called and the character is in the cache
\* (getCharacterInfo 20-22): the call completes without a request.
ValidateCached(id, character, inputBopomofo) ==
    /\ lookups[id].pc = "idle"
    /\ character \in cache
    /\ lookups' = [lookups EXCEPT ![id] =
           [pc |-> "done", character |-> character, input |-> inputBopomofo,
            how |-> "cache",
            result |-> ValidateBopomofoFrom(~Dictionary(character).isNull,
                                            Dictionary(character), inputBopomofo)]]
    /\ UNCHANGED <<cache, staleLookups>>

\* Variant: a call for a character that another call is fetching issues no
\* request and waits for that one.
ValidateFetchJoining(id, character, inputBopomofo) ==
    /\ lookups[id].pc = "idle"
    /\ character \notin cache
    /\ LET shared == \E other \in Callers \ {id} :
                          /\ lookups[other].pc = "fetching"
                          /\ lookups[other].character = character
       IN  lookups' = [lookups EXCEPT ![id] =
               [pc |-> IF shared THEN "joined" ELSE "fetching",
                character |-> character, input |-> inputBopomofo,
                how |-> "none", result |-> LowestVerdict]]
    /\ UNCHANGED <<cache, staleLookups>>

\* validateBopomofo is called and the character is not in the cache: fetch is
\* issued and awaited (getCharacterInfo 25).
ValidateFetch(id, character, inputBopomofo) ==
    /\ lookups[id].pc = "idle"
    /\ character \notin cache
    /\ lookups' = [lookups EXCEPT ![id] =
           [pc |-> "fetching", character |-> character, input |-> inputBopomofo,
            how |-> "none", result |-> LowestVerdict]]
    /\ UNCHANGED <<cache, staleLookups>>

\* Variant: a cache that holds one entry, the last response.
FetchSucceedsEvicting(id) ==
    /\ lookups[id].pc = "fetching"
    /\ cache' = {lookups[id].character}
    /\ lookups' = [lookups EXCEPT ![id] =
           [@ EXCEPT !.pc = "done", !.how = "fetched",
                     !.result = ValidateBopomofoFrom(
                         ~Dictionary(lookups[id].character).isNull,
                         Dictionary(lookups[id].character), lookups[id].input)]]
    /\ staleLookups' = staleLookups \ {id}

\* The response arrives and parses: the body is cached and validated (31-36).
FetchSucceeds(id) ==
    /\ lookups[id].pc = "fetching"
    /\ cache' = cache \cup {lookups[id].character}
    /\ lookups' = [lookups EXCEPT ![id] =
           [@ EXCEPT !.pc = "done", !.how = "fetched",
                     !.result = ValidateBopomofoFrom(
                         ~Dictionary(lookups[id].character).isNull,
                         Dictionary(lookups[id].character), lookups[id].input)]]
    /\ staleLookups' = staleLookups \ {id}

\* Variant: a failed request is remembered in the cache.
FetchFailsRemembered(id, failure) ==
    /\ lookups[id].pc = "fetching"
    /\ lookups' = [lookups EXCEPT ![id] =
           [@ EXCEPT !.pc = "done", !.how = failure,
                     !.result = ValidateBopomofoFrom(FALSE, JsonNull,
                                                     lookups[id].input)]]
    /\ staleLookups' = staleLookups \ {id}
    /\ cache' = cache \cup {lookups[id].character}

\* fetch rejects, the status is not ok, or the body is not JSON: the catch
\* block returns null (27-29, 37-40).
FetchFails(id, failure) ==
    /\ lookups[id].pc = "fetching"
    /\ lookups' = [lookups EXCEPT ![id] =
           [@ EXCEPT !.pc = "done", !.how = failure,
                     !.result = ValidateBopomofoFrom(FALSE, JsonNull,
                                                     lookups[id].input)]]
    /\ staleLookups' = staleLookups \ {id}
    /\ UNCHANGED cache

\* The caller takes the result.
TakeResult(id) ==
    /\ lookups[id].pc = "done"
    /\ lookups' = [lookups EXCEPT ![id] = IdleLookup]
    /\ UNCHANGED <<cache, staleLookups>>

\* clearCache (164-166)
ClearCache ==
    /\ cache' = {}
    /\ staleLookups' = {id \in Callers : lookups[id].pc = "fetching"}
    /\ UNCHANGED lookups

\* getCacheSize (169-171)
GetCacheSize == Cardinality(cache)

StartCached ==
    /\ \E id \in Callers, character \in Characters, inputBopomofo \in Inputs :
           ValidateCached(id, character, inputBopomofo)
    /\ UNCHANGED <<famVars, schedVars, gradeVars>>
    /\ UNCHANGED laterVars

StartFetch ==
    /\ \E id \in Callers, character \in Characters, inputBopomofo \in Inputs :
           ValidateFetch(id, character, inputBopomofo)
    /\ UNCHANGED <<famVars, schedVars, gradeVars>>
    /\ UNCHANGED laterVars

Succeed ==
    /\ \E id \in Callers : FetchSucceeds(id)
    /\ UNCHANGED <<famVars, schedVars, gradeVars>>
    /\ UNCHANGED laterVars

Fail ==
    /\ \E id \in Callers, failure \in FetchFailures : FetchFails(id, failure)
    /\ UNCHANGED <<famVars, schedVars, gradeVars>>
    /\ UNCHANGED laterVars

Take ==
    /\ \E id \in Callers : TakeResult(id)
    /\ UNCHANGED <<famVars, schedVars, gradeVars>>
    /\ UNCHANGED laterVars

Clear ==
    /\ ClearCache
    /\ UNCHANGED <<famVars, schedVars, gradeVars>>
    /\ UNCHANGED laterVars

(***************************************************************************)
(* validateBopomofo on its own (moedict.ts 44-102): the lookup has         *)
(* returned a body whose h is a list of heteronyms, each with a reading    *)
(* of the pool or without one, and the input is one of the typed strings.  *)
(* LongReading has ten symbols, so that a similarity of exactly 0.7 (three *)
(* substitutions) and one of 0.8 (two) occur.                              *)
(***************************************************************************)
MaxHeteronyms == 2

LongReading == <<"Q", "I", "A", "O", "K", "E", "L", "I", "N", "G">>

ReadingPool ==
    {<<>>, <<"M", "A">>, <<"M", "A", "2">>, <<"H", "A", "O", "3">>,
     <<"H", "A", "O", "4">>, LongReading}

TypedPool ==
    {<<>>, <<"M", "A", "2">>, <<"M", "A", "4">>, <<"H", "A", "O">>,
     <<"H", "A", "O", "4">>, <<"H", "A">>,
     <<"X", "I", "A", "X", "K", "E", "X", "I", "N", "G">>,
     <<"X", "I", "A", "O", "K", "E", "X", "I", "N", "G">>}

CharacterInfos ==
    {Body("array", [k \in 1..Len(readings) |-> Heteronym(readings[k])]) :
         readings \in SeqsUpTo(ReadingPool, MaxHeteronyms)}

NotValidated == [called |-> FALSE, result |-> LowestVerdict]

InitValidate ==
    /\ info \in CharacterInfos
    /\ typed \in TypedPool
    /\ verdict = NotValidated

\* validateBopomofo(character, typed) after getCharacterInfo returned info.
Validate ==
    /\ verdict' = [called |-> TRUE,
                   result |-> ValidateBopomofoFrom(TRUE, info, typed)]
    /\ UNCHANGED <<info, typed>>
    /\ UNCHANGED <<famVars, schedVars, gradeVars, moedictVars>>
    /\ UNCHANGED <<similarityVars, recordVars, phoneticVars>>

(***************************************************************************)
(* calculateSimilarity on its own (moedict.ts 122-135), on every pair of   *)
(* strings over two letters and a tone mark.                               *)
(***************************************************************************)
MaxSimLen == 3

SimAlphabet == {"M", "A", "2"}

SimStrings == SeqsUpTo(SimAlphabet, MaxSimLen)

NotCompared ==
    [called |-> FALSE, ab |-> Frac(0, 1), ba |-> Frac(0, 1), aa |-> Frac(0, 1)]

InitSimilarity ==
    /\ pair \in SimStrings \X SimStrings
    /\ similarity = NotCompared

\* calculateSimilarity(a, b), calculateSimilarity(b, a), calculateSimilarity(a, a)
Compare ==
    /\ similarity' = [called |-> TRUE,
                      ab |-> CalculateSimilarity(pair[1], pair[2]),
                      ba |-> CalculateSimilarity(pair[2], pair[1]),
                      aa |-> CalculateSimilarity(pair[1], pair[1])]
    /\ UNCHANGED pair
    /\ UNCHANGED <<famVars, schedVars, gradeVars, moedictVars>>
    /\ UNCHANGED <<validateVars, recordVars, phoneticVars>>

(***************************************************************************)
(* Learning records (DatabaseContext: StudyView.tsx 1040-1063, 1131-1137). *)
(* A record keeps the fields the scheduling reads and writes; subjectId,   *)
(* totalTimeSpent, createdAt and updatedAt are left out.  A timestamp is a *)
(* number of ticks: toISOString and new Date(string) keep the millisecond  *)
(* value of a date, so a stored timestamp is the date itself.              *)
(***************************************************************************)
QuestionIds == {"q1", "q2"}

LearningRecord(id, questionId, familiarity, correctCount, incorrectCount, streak, lastReviewed, nextReview) ==
    [id |-> id, questionId |-> questionId, familiarity |-> familiarity,
     correctCount |-> correctCount, incorrectCount |-> incorrectCount,
     streak |-> streak, lastReviewed |-> lastReviewed, nextReview |-> nextReview]

\* Array.prototype.sort((a, b) => a.nextReview - b.nextReview): stable.
RECURSIVE InsertByNextReview(_, _)
InsertByNextReview(sorted, record) ==
    IF sorted = <<>> THEN <<record>>
    ELSE IF record.nextReview < Head(sorted).nextReview
         THEN <<record>> \o sorted
         ELSE <<Head(sorted)>> \o InsertByNextReview(Tail(sorted), record)

RECURSIVE SortByNextReview(_)
SortByNextReview(records) ==
    IF records = <<>> THEN <<>>
    ELSE InsertByNextReview(SortByNextReview(SubSeq(records, 1, Len(records) - 1)),
                            records[Len(records)])

IsDue(record, clock) == record.nextReview <= clock

\* Variant: a record is due only strictly before the clock.
GetDueStrictlyBefore(records, clock) ==
    LET IsDueBefore(record) == record.nextReview < clock
    IN  SortByNextReview(SelectSeq(records, IsDueBefore))

\* getDueLearningRecords (1132-1137) with `new Date()` = clock.
GetDueLearningRecords(records, clock) ==
    LET IsDueNow(record) == IsDue(record, clock)
    IN  SortByNextReview(SelectSeq(records, IsDueNow))

\* What getDueLearningRecords leaves in learningRecords: filter makes a new
\* array and sort sorts that one.
RecordsAfterDueQuery(records, clock) == records

\* getLearningRecord (1061-1063): find gives the first record of the question.
HasLearningRecord(records, questionId) ==
    \E k \in 1..Len(records) : records[k].questionId = questionId

GetLearningRecord(records, questionId) ==
    records[CHOOSE k \in 1..Len(records) :
                /\ records[k].questionId = questionId
                /\ \A j \in 1..(k - 1) : records[j].questionId # questionId]

(***************************************************************************)
(* getDueLearningRecords on its own: the list holds up to MaxDueList       *)
(* records due one tick before, at, or one tick after the clock.           *)
(***************************************************************************)
MaxDueList == 4

NotQueried == [called |-> FALSE, at |-> 0, before |-> <<>>, records |-> <<>>]

DueLists ==
    {[k \in 1..Len(times) |->
          LearningRecord(k, IF k % 2 = 1 THEN "q1" ELSE "q2", "unanswered",
                         0, 1, 0, 0, times[k])] :
         times \in SeqsUpTo(0..2, MaxDueList)}

QueryDue ==
    /\ dueResult' = [called |-> TRUE, at |-> now, before |-> learningRecords,
                     records |-> GetDueLearningRecords(learningRecords, now)]
    /\ learningRecords' = RecordsAfterDueQuery(learningRecords, now)
    /\ UNCHANGED <<view, pending, history, reviewSession>>
    /\ UNCHANGED <<famVars, schedVars, gradeVars, moedictVars>>
    /\ UNCHANGED <<validateVars, similarityVars, phoneticVars>>

(***************************************************************************)
(* The study and review sessions (StudyView.tsx 20-240, ReviewView.tsx     *)
(* 9-149).  A session walks a list of questions by an index: the questions *)
(* of the subject (study), or the questions of the due records as the last *)
(* render computed them (review, 12-13 and 69-70).                         *)
(*                                                                         *)
(* handleFamiliaritySelect is an async function: it reads the record,      *)
(* builds the update and awaits the store (SelectFamiliarity); when the    *)
(* store has answered, the learningRecords state takes the update, the     *)
(* modal closes and handleNextQuestion runs (StoreAnswers).  While it      *)
(* waits the modal stays open and its buttons stay enabled.                *)
(*                                                                         *)
(* history is not program state: it records, per question, the graded      *)
(* result of every completed familiarity selection, in order.  Nor is      *)
(* reviewSession: it records which questions were due when the review view *)
(* was opened and which of them the view has shown as currentQuestion.     *)
(***************************************************************************)
MaxReviews == 2
MaxDays == 1

StudyQuestions == <<"q1", "q2">>

HomeView ==
    [name |-> "home", index |-> 0, showAnswer |-> FALSE, isCorrect |-> FALSE,
     modal |-> FALSE, renderedAt |-> 0]

\* dueRecords.map(r => questions.find(q => q.id === r.questionId)) (ReviewView 13)
DueQuestions(records, clock) ==
    LET dueRecords == GetDueLearningRecords(records, clock)
    IN  [k \in 1..Len(dueRecords) |-> dueRecords[k].questionId]

\* studyQuestions (StudyView 28) or dueQuestions (ReviewView 13)
SessionQuestions ==
    IF view.name = "study" THEN StudyQuestions
    ELSE IF view.name = "review" THEN DueQuestions(learningRecords, view.renderedAt)
    ELSE <<>>

HasCurrentQuestion == view.index < Len(SessionQuestions)

CurrentQuestion == SessionQuestions[view.index + 1]

\* The time of the render that follows a state change; only the review view
\* reads the clock when it renders.
RenderTime(name, clock) == IF name = "review" THEN clock ELSE 0

\* A positive id no record and no waiting call holds (crypto.randomUUID).
FreshId ==
    LET used == {learningRecords[k].id : k \in 1..Len(learningRecords)}
                    \cup {p.record.id : p \in pending}
    IN  CHOOSE id \in 1..(Cardinality(used) + 1) : id \notin used

\* Variant: the strategy is given the streak the record had before.
ReviewUpdateStaleStreak(hasRecord, existingRecord, id, questionId, newFamiliarity, isCorrect, lastReviewed, clock) ==
    LET correctCount ==
            (IF hasRecord THEN existingRecord.correctCount ELSE 0)
                + (IF isCorrect THEN 1 ELSE 0)
        incorrectCount ==
            (IF hasRecord THEN existingRecord.incorrectCount ELSE 0)
                + (IF isCorrect THEN 0 ELSE 1)
        before == IF hasRecord THEN existingRecord.streak ELSE 0
        streak == IF isCorrect THEN before + 1 ELSE 0
    IN  LearningRecord(id, questionId, newFamiliarity, correctCount,
                       incorrectCount, streak, lastReviewed,
                       SimpleCalculateNextReview(newFamiliarity, correctCount,
                                                 incorrectCount, before, clock))

\* The record written by handleFamiliaritySelect (StudyView 181-213,
\* ReviewView 113-127): lastReviewed is the first clock reading, the
\* strategy takes its own, clock.
ReviewUpdate(hasRecord, existingRecord, id, questionId, newFamiliarity, isCorrect, lastReviewed, clock) ==
    LET correctCount ==
            (IF hasRecord THEN existingRecord.correctCount ELSE 0)
                + (IF isCorrect THEN 1 ELSE 0)
        incorrectCount ==
            (IF hasRecord THEN existingRecord.incorrectCount ELSE 0)
                + (IF isCorrect THEN 0 ELSE 1)
        streak ==
            IF isCorrect
            THEN (IF hasRecord THEN existingRecord.streak ELSE 0) + 1
            ELSE 0
    IN  LearningRecord(id, questionId, newFamiliarity, correctCount,
                       incorrectCount, streak, lastReviewed,
                       SimpleCalculateNextReview(newFamiliarity, correctCount,
                                                 incorrectCount, streak, clock))

\* setLearningRecords of createLearningRecord (1043) and of
\* updateLearningRecord (1054).
RecordsAfterWrite(records, kind, record) ==
    IF kind = "create" THEN Append(records, record)
    ELSE [k \in 1..Len(records) |->
              IF records[k].id = record.id THEN record ELSE records[k]]

NoSession == [dueAtStart |-> {}, presented |-> {}]

\* The session after a render of the review view (ReviewView 12-13, 69):
\* currentQuestion = dueQuestions[currentIndex], if there is one, is shown.
SessionAfter(session, viewAfter, recordsAfter) ==
    LET dueQuestions == DueQuestions(recordsAfter, viewAfter.renderedAt)
    IN  IF viewAfter.name = "review" /\ viewAfter.index < Len(dueQuestions)
        THEN [session EXCEPT !.presented = @ \cup {dueQuestions[viewAfter.index + 1]}]
        ELSE session

\* useState(null) of apiValidation (StudyView 26).  A result that is held
\* carries the question index and the input it was computed for.
NoValidation == [held |-> FALSE, isCorrect |-> FALSE, index |-> 0, input |-> <<>>]

InitPhonetic ==
    /\ apiValidation = NoValidation
    /\ validations = {}

InitRecords ==
    /\ learningRecords = <<>>
    /\ dueResult = NotQueried
    /\ view = HomeView
    /\ pending = {}
    /\ history = [q \in QuestionIds |-> <<>>]
    /\ reviewSession = NoSession

\* The learner opens the study view on the subject (StudyView 20-41).
OpenStudy ==
    /\ view.name = "home" /\ pending = {}
    /\ view' = [HomeView EXCEPT !.name = "study"]
    /\ UNCHANGED <<learningRecords, dueResult, pending, history, reviewSession>>
    /\ UNCHANGED <<famVars, schedVars, gradeVars, moedictVars>>
    /\ UNCHANGED <<validateVars, similarityVars, phoneticVars>>

\* The learner opens the review view (ReviewView 9-20).
OpenReview ==
    /\ view.name = "home" /\ pending = {}
    /\ view' = [HomeView EXCEPT !.name = "review", !.renderedAt = now]
    /\ reviewSession' =
           LET dueQuestions == DueQuestions(learningRecords, now)
           IN  SessionAfter([dueAtStart |-> {dueQuestions[k] : k \in 1..Len(dueQuestions)},
                             presented |-> {}],
                            view', learningRecords)
    /\ UNCHANGED <<learningRecords, dueResult, pending, history>>
    /\ UNCHANGED <<famVars, schedVars, gradeVars, moedictVars>>
    /\ UNCHANGED <<validateVars, similarityVars, phoneticVars>>

\* The back button: onViewChange('home').  The view is unmounted: its state
\* is gone and what its calls under way set later is set on nothing.
GoHome ==
    /\ view.name # "home"
    /\ view' = HomeView
    /\ reviewSession' = NoSession
    /\ userAnswer' = Null
    /\ apiValidation' = NoValidation
    /\ validations' = {}
    /\ UNCHANGED <<question, graded>>
    /\ UNCHANGED <<learningRecords, dueResult, pending, history>>
    /\ UNCHANGED <<famVars, schedVars, moedictVars>>
    /\ UNCHANGED <<validateVars, similarityVars>>

\* handleSubmitAnswer (StudyView 149-155, ReviewView 103-107) with an answer
\* that checkAnswer grades as correct or not.
SubmitAnswer ==
    /\ view.name # "home" /\ HasCurrentQuestion
    /\ ~view.showAnswer
    /\ \E correct \in BOOLEAN :
           view' = [view EXCEPT !.isCorrect = correct, !.showAnswer = TRUE,
                                !.renderedAt = RenderTime(view.name, now)]
    /\ reviewSession' = SessionAfter(reviewSession, view', learningRecords)
    /\ UNCHANGED <<learningRecords, dueResult, pending, history>>
    /\ UNCHANGED <<famVars, schedVars, gradeVars, moedictVars>>
    /\ UNCHANGED <<validateVars, similarityVars, phoneticVars>>

\* handleRetry (StudyView 234-240, ReviewView 144-149)
Retry ==
    /\ view.name # "home" /\ HasCurrentQuestion
    /\ view.showAnswer /\ ~view.modal
    /\ view' = [view EXCEPT !.isCorrect = FALSE, !.showAnswer = FALSE,
                            !.renderedAt = RenderTime(view.name, now)]
    /\ userAnswer' = Null
    /\ apiValidation' = NoValidation
    /\ reviewSession' = SessionAfter(reviewSession, view', learningRecords)
    /\ UNCHANGED <<question, graded, validations>>
    /\ UNCHANGED <<learningRecords, dueResult, pending, history>>
    /\ UNCHANGED <<famVars, schedVars, moedictVars>>
    /\ UNCHANGED <<validateVars, similarityVars>>

\* Variant: the modal can be opened before an answer is shown.
OpenModalBeforeAnswer ==
    /\ view.name # "home" /\ HasCurrentQuestion
    /\ ~view.modal
    /\ view' = [view EXCEPT !.modal = TRUE,
                            !.renderedAt = RenderTime(view.name, now)]
    /\ reviewSession' = SessionAfter(reviewSession, view', learningRecords)
    /\ UNCHANGED <<learningRecords, dueResult, pending, history>>
    /\ UNCHANGED <<famVars, schedVars, gradeVars, moedictVars>>
    /\ UNCHANGED <<validateVars, similarityVars, phoneticVars>>

\* setShowFamiliarityModal(true) (StudyView 79, 639; ReviewView 51, 285)
OpenModal ==
    /\ view.name # "home" /\ HasCurrentQuestion
    /\ view.showAnswer /\ ~view.modal
    /\ view' = [view EXCEPT !.modal = TRUE,
                            !.renderedAt = RenderTime(view.name, now)]
    /\ reviewSession' = SessionAfter(reviewSession, view', learningRecords)
    /\ UNCHANGED <<learningRecords, dueResult, pending, history>>
    /\ UNCHANGED <<famVars, schedVars, gradeVars, moedictVars>>
    /\ UNCHANGED <<validateVars, similarityVars, phoneticVars>>

CompletedReviews(questionId) == Len(history[questionId])

ReviewsBegun ==
    Cardinality(pending)
        + CompletedReviews("q1") + CompletedReviews("q2")

\* handleFamiliaritySelect up to its await (StudyView 172-213, ReviewView
\* 109-127).  The clock can move on between `new Date()` of lastReviewed and
\* `new Date()` of the strategy.
SelectFamiliarity(familiarity, later) ==
    /\ view.name # "home" /\ HasCurrentQuestion
    /\ view.modal
    /\ ReviewsBegun < MaxReviews
    /\ LET questionId == CurrentQuestion
           hasRecord == HasLearningRecord(learningRecords, questionId)
           existingRecord ==
               IF hasRecord THEN GetLearningRecord(learningRecords, questionId)
               ELSE LearningRecord(0, questionId, "unanswered", 0, 0, 0, 0, 0)
           id == IF hasRecord THEN existingRecord.id ELSE FreshId
           n == CHOOSE k \in 1..(MaxReviews + 1) : \A p \in pending : p.n # k
       IN  /\ view.name = "review" => hasRecord
           /\ pending' = pending \cup
                  {[n |-> n, flow |-> view.name,
                    kind |-> IF hasRecord THEN "update" ELSE "create",
                    questionId |-> questionId, isCorrect |-> view.isCorrect,
                    index |-> view.index, length |-> Len(SessionQuestions),
                    record |-> ReviewUpdate(hasRecord, existingRecord, id,
                                            questionId, familiarity,
                                            view.isCorrect, now, now + later)]}
    /\ now' = now + later
    /\ UNCHANGED <<args, call>>
    /\ UNCHANGED <<learningRecords, dueResult, view, history, reviewSession>>
    /\ UNCHANGED <<famVars, gradeVars, moedictVars>>
    /\ UNCHANGED <<validateVars, similarityVars, phoneticVars>>

\* The store has answered: setLearningRecords (1043, 1054), then
\* setShowFamiliarityModal(false) and handleNextQuestion with the index and
\* the list length the call started with (StudyView 216-232, ReviewView
\* 128-142).
StoreAnswers(p) ==
    /\ p \in pending
    /\ pending' = pending \ {p}
    /\ learningRecords' = RecordsAfterWrite(learningRecords, p.kind, p.record)
    /\ history' = [history EXCEPT ![p.questionId] = Append(@, p.isCorrect)]
    /\ view' = IF view.name # p.flow THEN view
               ELSE IF p.index < p.length - 1
               THEN [view EXCEPT !.index = @ + 1, !.showAnswer = FALSE,
                                 !.isCorrect = FALSE, !.modal = FALSE,
                                 !.renderedAt = RenderTime(view.name, now)]
               ELSE HomeView
    /\ reviewSession' = IF view'.name = "review"
                        THEN SessionAfter(reviewSession, view', learningRecords')
                        ELSE NoSession
    /\ userAnswer' = IF view.name # p.flow THEN userAnswer ELSE Null
    /\ apiValidation' = IF view.name # p.flow THEN apiValidation ELSE NoValidation
    /\ validations' = IF view'.name = "home" THEN {} ELSE validations
    /\ UNCHANGED <<question, graded, dueResult>>
    /\ UNCHANGED <<famVars, schedVars, moedictVars>>
    /\ UNCHANGED <<validateVars, similarityVars>>

Select ==
    \E familiarity \in Familiarity, later \in {0, 1} :
        SelectFamiliarity(familiarity, later)

\* The selections of the lowest and of the highest tier, the clock standing
\* still.
SelectOuterTier ==
    \E familiarity \in {"unfamiliar", "mastered"} :
        SelectFamiliarity(familiarity, 0)

Store == \E p \in pending : StoreAnswers(p)

\* A day passes.
Elapse ==
    /\ now < MaxDays * TicksPerDay
    /\ now' = now + TicksPerDay
    /\ UNCHANGED <<args, call>>
    /\ UNCHANGED <<famVars, gradeVars, moedictVars>>
    /\ UNCHANGED laterVars

(***************************************************************************)
(* Phonetic questions in the study view (StudyView.tsx 138-170).  A typed  *)
(* answer is a sequence of symbols, " " among them; a character is written *)
(* as one symbol.  q1 asks for the reading of "ma"; q2 asks for the        *)
(* character "bad", whose lookup body makes validateBopomofo throw.        *)
(* handleSubmitAnswer grades the answer, shows it and, for a phonetic      *)
(* question, awaits validateBopomofo (SubmitPhonetic); the call returns    *)
(* any time later and its result is put in apiValidation                   *)
(* (ValidationReturns), or it throws and is caught (ValidationThrows).     *)
(***************************************************************************)
MaxValidations == 2

PhoneticQuestion(questionId) ==
    IF questionId = "q1"
    THEN [type |-> "char-to-bopomofo", character |-> "ma",
          correctBopomofo |-> <<"M", "A", "2">>]
    ELSE [type |-> "bopomofo-to-char", correctChar |-> "bad"]

AnswerTexts ==
    {<<"M", "A", "2">>, <<" ", "M", "A", "2", " ">>, <<"M", "A">>, <<"bad">>}

Text(v) == [kind |-> "text", v |-> v]

\* String.prototype.trim
RECURSIVE TrimStart(_)
TrimStart(text) ==
    IF text # <<>> /\ Head(text) = " " THEN TrimStart(Tail(text)) ELSE text

RECURSIVE TrimEnd(_)
TrimEnd(text) ==
    IF text # <<>> /\ text[Len(text)] = " "
    THEN TrimEnd(SubSeq(text, 1, Len(text) - 1)) ELSE text

Trim(text) == TrimEnd(TrimStart(text))

\* Variant: the answer is compared without its tone marks.
CheckPhoneticNormalizing(q, answer) ==
    IF answer = Null THEN FALSE
    ELSE IF q.type = "bopomofo-to-char"
         THEN Trim(answer.v) = <<q.correctChar>>
         ELSE NormalizeBopomofo(Trim(answer.v)) = NormalizeBopomofo(q.correctBopomofo)

\* checkAnswer on the two phonetic types (StudyView 102, 138-142)
CheckPhonetic(q, answer) ==
    IF answer = Null THEN FALSE
    ELSE IF q.type = "bopomofo-to-char"
         THEN Trim(answer.v) = <<q.correctChar>>
         ELSE Trim(answer.v) = q.correctBopomofo

\* The character handleSubmitAnswer has validated (StudyView 159-161)
ValidatedCharacter(q) ==
    IF q.type = "char-to-bopomofo" THEN q.character ELSE q.correctChar

\* handleAnswerChange (StudyView 97-99), from the input shown while the
\* answer is not.
TypeAnswer ==
    /\ view.name = "study" /\ HasCurrentQuestion
    /\ ~view.showAnswer
    /\ \E text \in AnswerTexts : userAnswer' = Text(text)
    /\ UNCHANGED <<question, graded>>
    /\ UNCHANGED <<famVars, schedVars, moedictVars>>
    /\ UNCHANGED laterVars

\* handleSubmitAnswer (StudyView 149-170) up to its await.
SubmitPhonetic ==
    /\ view.name = "study" /\ HasCurrentQuestion
    /\ ~view.showAnswer
    /\ userAnswer # Null
    /\ LET q == PhoneticQuestion(CurrentQuestion)
           validation == [index |-> view.index,
                          character |-> ValidatedCharacter(q),
                          input |-> userAnswer.v]
       IN  /\ Cardinality(validations \cup {validation}) <= MaxValidations
           /\ view' = [view EXCEPT !.isCorrect = CheckPhonetic(q, userAnswer),
                                   !.showAnswer = TRUE]
           /\ validations' = validations \cup {validation}
    /\ UNCHANGED apiValidation
    /\ UNCHANGED <<learningRecords, dueResult, pending, history, reviewSession>>
    /\ UNCHANGED <<famVars, schedVars, gradeVars, moedictVars>>
    /\ UNCHANGED <<validateVars, similarityVars>>

\* validateBopomofo returns; setApiValidation(validation) (StudyView 164-165).
\* The lookup answered (hasInfo) or failed and gave null.
ValidationReturns(v, hasInfo) ==
    LET result == ValidateBopomofoFrom(hasInfo, Dictionary(v.character), v.input)
    IN  /\ v \in validations
        /\ ~result.threw
        /\ validations' = validations \ {v}
        /\ apiValidation' = [held |-> TRUE, isCorrect |-> result.isCorrect,
                             index |-> v.index, input |-> v.input]

\* validateBopomofo throws; the catch block logs it (StudyView 166-168).
ValidationThrows(v) ==
    /\ v \in validations
    /\ ValidateBopomofoFrom(TRUE, Dictionary(v.character), v.input).threw
    /\ validations' = validations \ {v}
    /\ UNCHANGED apiValidation

Return ==
    /\ \E v \in validations, hasInfo \in BOOLEAN : ValidationReturns(v, hasInfo)
    /\ UNCHANGED recordVars
    /\ UNCHANGED <<famVars, schedVars, gradeVars, moedictVars>>
    /\ UNCHANGED <<validateVars, similarityVars>>

Throw ==
    /\ \E v \in validations : ValidationThrows(v)
    /\ UNCHANGED recordVars
    /\ UNCHANGED <<famVars, schedVars, gradeVars, moedictVars>>
    /\ UNCHANGED <<validateVars, similarityVars>>

(***************************************************************************)
(* A review session on its own: each of the two questions has the record   *)
(* that its first answer in the study flow created at clock 0, with any    *)
(* self-rated tier and either grade; the review view is opened at clock 0  *)
(* or a day later.  history starts empty: it counts the selections of the  *)
(* session.                                                                *)
(***************************************************************************)
FirstRecord(id, questionId, familiarity, isCorrect) ==
    ReviewUpdate(FALSE, LearningRecord(0, questionId, "unanswered", 0, 0, 0, 0, 0),
                 id, questionId, familiarity, isCorrect, 0, 0)

ReviewStarts ==
    {<<FirstRecord(1, "q1", f1, c1), FirstRecord(2, "q2", f2, c2)>> :
         f1 \in Familiarity, c1 \in BOOLEAN, f2 \in Familiarity, c2 \in BOOLEAN}

InitReview ==
    /\ learningRecords \in ReviewStarts
    /\ now \in {0, TicksPerDay}
    /\ dueResult = NotQueried
    /\ view = HomeView
    /\ pending = {}
    /\ history = [q \in QuestionIds |-> <<>>]
    /\ reviewSession = NoSession

(***************************************************************************)
(* Specifications.                                                         *)
(***************************************************************************)
FamIdle == fam = "unanswered" /\ wrongRun = 0 /\ lastUpd = NoUpdate
ArgsIdle == args = [familiarity |-> "unanswered", correctCount |-> 0,
                    incorrectCount |-> 0, streak |-> 0] /\ call = NoCall

SchedIdle == now = 0 /\ ArgsIdle

GradeIdle == question = [type |-> "true-false", correctAnswer |-> TRUE]
             /\ userAnswer = Null /\ graded = NotGraded

MoedictIdle == InitMoedict

ValidateIdle == info = Body("array", <<>>) /\ typed = <<>> /\ verdict = NotValidated

SimilarityIdle == pair = <<(<<>>), (<<>>)>> /\ similarity = NotCompared

RecordsIdle == InitRecords

PhoneticIdle == InitPhonetic

LaterIdle == ValidateIdle /\ SimilarityIdle /\ RecordsIdle /\ PhoneticIdle

NextFam == AnswerStep
InitFamSpec == InitFam /\ SchedIdle /\ GradeIdle /\ MoedictIdle /\ LaterIdle
SpecFam == InitFamSpec /\ [][NextFam]_vars

NextSched == CallSM2 \/ CallFSRS \/ CallSimple \/ Tick
InitSchedSpec == FamIdle /\ InitSched /\ GradeIdle /\ MoedictIdle /\ LaterIdle
SpecSched == InitSchedSpec /\ [][NextSched]_vars

NextGrade == GradeStudy \/ GradeReview
InitGradeSpec == FamIdle /\ SchedIdle /\ InitGrade /\ MoedictIdle /\ LaterIdle
SpecGrade == InitGradeSpec /\ [][NextGrade]_vars

NextMoedict == StartCached \/ StartFetch \/ Succeed \/ Fail \/ Take \/ Clear
InitMoedictSpec == FamIdle /\ SchedIdle /\ GradeIdle /\ InitMoedict /\ LaterIdle
SpecMoedict == InitMoedictSpec /\ [][NextMoedict]_vars

NextValidate == Validate
InitValidateSpec ==
    FamIdle /\ SchedIdle /\ GradeIdle /\ MoedictIdle /\ InitValidate
    /\ SimilarityIdle /\ RecordsIdle /\ PhoneticIdle
SpecValidate == InitValidateSpec /\ [][NextValidate]_vars

NextSimilarity == Compare
InitSimilaritySpec ==
    FamIdle /\ SchedIdle /\ GradeIdle /\ MoedictIdle /\ ValidateIdle
    /\ InitSimilarity /\ RecordsIdle /\ PhoneticIdle
SpecSimilarity == InitSimilaritySpec /\ [][NextSimilarity]_vars

NextDue == QueryDue
InitDueSpec ==
    /\ FamIdle /\ now = 1 /\ ArgsIdle /\ GradeIdle /\ MoedictIdle
    /\ ValidateIdle /\ SimilarityIdle
    /\ learningRecords \in DueLists
    /\ dueResult = NotQueried /\ view = HomeView /\ pending = {}
    /\ history = [q \in QuestionIds |-> <<>>]
    /\ reviewSession = NoSession /\ PhoneticIdle
SpecDue == InitDueSpec /\ [][NextDue]_vars

NextPhonetic ==
    \/ OpenStudy \/ GoHome \/ TypeAnswer \/ SubmitPhonetic \/ Retry
    \/ OpenModal \/ SelectOuterTier \/ Store \/ Return \/ Throw
InitPhoneticSpec ==
    FamIdle /\ SchedIdle /\ GradeIdle /\ MoedictIdle /\ ValidateIdle
    /\ SimilarityIdle /\ InitRecords /\ InitPhonetic
SpecPhonetic == InitPhoneticSpec /\ [][NextPhonetic]_vars

NextReview ==
    \/ OpenReview \/ GoHome \/ SubmitAnswer \/ Retry \/ OpenModal
    \/ Select \/ Store
InitReviewSpec ==
    FamIdle /\ ArgsIdle /\ GradeIdle /\ MoedictIdle /\ ValidateIdle
    /\ SimilarityIdle /\ InitReview /\ PhoneticIdle
SpecReview == InitReviewSpec /\ [][NextReview]_vars

NextRecords ==
    \/ OpenStudy \/ OpenReview \/ GoHome \/ SubmitAnswer \/ Retry \/ OpenModal
    \/ Select \/ Store \/ Elapse
InitRecordsSpec ==
    FamIdle /\ SchedIdle /\ GradeIdle /\ MoedictIdle /\ ValidateIdle
    /\ SimilarityIdle /\ InitRecords /\ PhoneticIdle
SpecRecords == InitRecordsSpec /\ [][NextRecords]_vars

(***************************************************************************)
(* Claims about updateFamiliarity, checked under SpecFam.                  *)
(***************************************************************************)

\* C1: updateFamiliarity is total and equals the transition table: correct
\* answers take unfamiliar and unanswered to somewhat-familiar,
\* somewhat-familiar to familiar exactly when timeSpent < 10, familiar to
\* mastered exactly when timeSpent < 5, mastered to mastered; incorrect
\* answers take unfamiliar, unanswered and somewhat-familiar to unfamiliar,
\* familiar to somewhat-familiar, mastered to familiar; the result is a tier.
C1_TransitionTable ==
    lastUpd.called =>
        LET f == lastUpd.from
            t == lastUpd.timeSpent
            r == lastUpd.to
        IN  /\ r \in Familiarity
            /\ lastUpd.isCorrect =>
                 /\ f \in {"unfamiliar", "unanswered"} => r = "somewhat-familiar"
                 /\ f = "somewhat-familiar" /\ t < 10 => r = "familiar"
                 /\ f = "somewhat-familiar" /\ ~(t < 10) => r = "somewhat-familiar"
                 /\ f = "familiar" /\ t < 5 => r = "mastered"
                 /\ f = "familiar" /\ ~(t < 5) => r = "familiar"
                 /\ f = "mastered" => r = "mastered"
            /\ ~lastUpd.isCorrect =>
                 /\ f \in {"unfamiliar", "unanswered", "somewhat-familiar"}
                        => r = "unfamiliar"
                 /\ f = "familiar" => r = "somewhat-familiar"
                 /\ f = "mastered" => r = "familiar"

C1_Witness ==
    /\ lastUpd.called /\ lastUpd.isCorrect
    /\ lastUpd.from = "familiar" /\ lastUpd.timeSpent = 5
    /\ lastUpd.to = "familiar"

\* C2: an incorrect answer never moves the tier above the current one,
\* unfamiliar is a fixed point of incorrect answers, and three incorrect
\* answers in a row from any tier end at unfamiliar, where further incorrect
\* answers stay.
C2_IncorrectNeverRaises ==
    /\ (lastUpd.called /\ ~lastUpd.isCorrect) =>
          /\ Rank(lastUpd.to) <= Rank(lastUpd.from)
          /\ lastUpd.from = "unfamiliar" => lastUpd.to = "unfamiliar"
    /\ wrongRun >= 3 => fam = "unfamiliar"

C2_Witness ==
    /\ wrongRun = MaxWrongRun
    /\ lastUpd.called /\ ~lastUpd.isCorrect
    /\ lastUpd.from = "unfamiliar" /\ fam = "unfamiliar"

\* C3 as stated: a correct answer with timeSpent >= 10 returns the same tier
\* or its immediate successor in the order unfamiliar, unanswered,
\* somewhat-familiar, familiar, mastered.
C3_NeverSkipsATier ==
    (lastUpd.called /\ lastUpd.isCorrect /\ lastUpd.timeSpent >= 10) =>
        lastUpd.to \in {lastUpd.from, Successor(lastUpd.from)}

\* C3 as amended: a correct answer with timeSpent >= 10 returns the same tier
\* or its immediate successor for every tier but unfamiliar; from unfamiliar
\* it returns somewhat-familiar, which skips unanswered.
C3_SkipsOnlyUnanswered ==
    (lastUpd.called /\ lastUpd.isCorrect /\ lastUpd.timeSpent >= 10) =>
        IF lastUpd.from = "unfamiliar"
        THEN lastUpd.to = "somewhat-familiar"
        ELSE lastUpd.to \in {lastUpd.from, Successor(lastUpd.from)}

C3_Witness ==
    /\ lastUpd.called /\ lastUpd.isCorrect /\ lastUpd.timeSpent >= 10
    /\ lastUpd.from = "unfamiliar" /\ lastUpd.to = "somewhat-familiar"

(***************************************************************************)
(* Claims about the scheduling strategies, checked under SpecSched.        *)
(***************************************************************************)

\* C4 as stated: the Simple strategy returns now + interval days with the
\* fractional part of the interval included, the interval being the tier's
\* base (0.1, 0.5, 1, 3, 7) times 1.5 for accuracy >= 0.9 or 0.5 for
\* accuracy < 0.6 (with attempts), times min(1 + 0.2*streak, 3) for a
\* positive streak.
C4_SimpleKeepsFraction ==
    call.algo = "Simple" =>
        LET total == args.correctCount + args.incorrectCount
            base == CASE args.familiarity = "unfamiliar" -> 1
                      [] args.familiarity = "unanswered" -> 5
                      [] args.familiarity = "somewhat-familiar" -> 10
                      [] args.familiarity = "familiar" -> 30
                      [] args.familiarity = "mastered" -> 70
            acc == IF total > 0 /\ 10 * args.correctCount >= 9 * total THEN 15
                   ELSE IF total > 0 /\ 10 * args.correctCount < 6 * total THEN 5
                   ELSE 10
            str == IF args.streak > 0 THEN Min(10 + 2 * args.streak, 30) ELSE 10
        IN  call.nextReview = AddDaysFractional(call.at, base * acc * str)

\* C5: the SM2 strategy returns now + 1 minute for unfamiliar and
\* now + 5 minutes for unanswered whatever the counts and the streak; for the
\* other tiers now + round(baseDays * ease * min(1 + 0.1*streak, 2.0)) whole
\* days, baseDays 1/3/7, ease 2.5 with no attempts, 2.6 for accuracy >= 0.9,
\* 2.4 for 0.7 <= accuracy < 0.9, 2.3 otherwise.
C5_SM2Schedule ==
    call.algo = "SM2" =>
        LET total == args.correctCount + args.incorrectCount
            base == CASE args.familiarity = "somewhat-familiar" -> 1
                      [] args.familiarity = "familiar" -> 3
                      [] args.familiarity = "mastered" -> 7
                      [] OTHER -> 0
            ease == IF total = 0 THEN 25
                    ELSE IF 10 * args.correctCount >= 9 * total THEN 26
                    ELSE IF 10 * args.correctCount >= 7 * total THEN 24
                    ELSE 23
            mult == IF 10 + args.streak < 20 THEN 10 + args.streak ELSE 20
            days == (call.nextReview - call.at) \div TicksPerDay
        IN  CASE args.familiarity = "unfamiliar" ->
                     call.nextReview = call.at + TicksPerMinute
              [] args.familiarity = "unanswered" ->
                     call.nextReview = call.at + 5 * TicksPerMinute
              [] OTHER ->
                     /\ call.nextReview = call.at + days * TicksPerDay
                     /\ 200 * days - 100 <= 2 * base * ease * mult
                     /\ 2 * base * ease * mult < 200 * days + 100

C5_Witness ==
    /\ call.algo = "SM2" /\ call.at > 0
    /\ args.familiarity = "mastered" /\ args.correctCount = 9
    /\ args.incorrectCount = 1 /\ args.streak = 3
    /\ call.nextReview = call.at + 24 * TicksPerDay

\* C6: the FSRS strategy returns now + min(round(stability *
\* difficulty^-0.8), 36500) days, difficulty 5.0 with no attempts, 4.8 for
\* accuracy >= 0.9, 5.1 for accuracy >= 0.7, 5.3 otherwise, stability the tier
\* seed (0.1, 0.5, 2.0, 5.0, 10.0) times 1.3^min(streak, 10); mastered with no
\* history gets round(10 * 5^-0.8) = 3 days; the interval is always between
\* 0 and 36500 days.
C6_FSRSSchedule ==
    call.algo = "FSRS" =>
        LET total == args.correctCount + args.incorrectCount
            diff == IF total = 0 THEN 50
                    ELSE IF 10 * args.correctCount >= 9 * total THEN 48
                    ELSE IF 10 * args.correctCount >= 7 * total THEN 51
                    ELSE 53
            seed == CASE args.familiarity = "unfamiliar" -> 1
                      [] args.familiarity = "unanswered" -> 5
                      [] args.familiarity = "somewhat-familiar" -> 20
                      [] args.familiarity = "familiar" -> 50
                      [] args.familiarity = "mastered" -> 100
            capped == IF args.streak < 10 THEN args.streak ELSE 10
            x == FixMul((seed * Pow13(capped)) \div 100, PowNeg08(diff))
            days == (call.nextReview - call.at) \div TicksPerDay
        IN  /\ call.nextReview = call.at + days * TicksPerDay
            /\ 0 <= days /\ days <= 36500
            /\ \/ days = 36500 /\ 2 * x >= 20000 * 36500 - 10000
               \/ 20000 * days - 10000 <= 2 * x /\ 2 * x < 20000 * days + 10000
            /\ (args.familiarity = "mastered" /\ total = 0 /\ args.streak = 0)
                   => days = 3

C6_Witness ==
    /\ call.algo = "FSRS" /\ call.at > 0
    /\ args.familiarity = "mastered" /\ args.correctCount = 0
    /\ args.incorrectCount = 0 /\ args.streak = 0
    /\ call.nextReview = call.at + 3 * TicksPerDay

(***************************************************************************)
(* Claims about checkAnswer, checked under SpecGrade.                      *)
(***************************************************************************)

\* C8 as stated: for a multiple-choice question with allowMultiple, the
\* answer is graded correct exactly when the submitted ids, as an unordered
\* set, equal the set of ids of the options flagged isCorrect (containment
\* both ways, and as many ids submitted as there are correct ones), so a
\* submission that omits a correct id is incorrect.
C8_MultiSelectIsSetEquality ==
    (/\ graded.flow # "none"
     /\ question.type = "multiple-choice" /\ question.allowMultiple
     /\ userAnswer # Null) =>
        (graded.isCorrect <=>
            LET submitted == {userAnswer.v[k] : k \in 1..Len(userAnswer.v)}
                correct == {question.options[k].id :
                    k \in {j \in 1..Len(question.options) :
                               question.options[j].isCorrect}}
            IN  /\ submitted = correct
                /\ Len(userAnswer.v) = Cardinality(correct))

\* C9 as stated: for a sort question, in the study flow and in the review
\* flow, the answer is graded correct exactly when the submitted index
\* sequence is 0, 1, ..., n-1 for the n items sorted by correctOrder.
C9_SortGradedInBothFlows ==
    (graded.flow # "none" /\ question.type = "sort" /\ userAnswer # Null) =>
        (graded.isCorrect <=>
            /\ Len(userAnswer.v) = Len(question.items)
            /\ \A k \in 1..Len(userAnswer.v) : userAnswer.v[k] = k - 1)

(***************************************************************************)
(* Claims about MoedictAPI, checked under SpecMoedict.                     *)
(***************************************************************************)

\* C10 as stated: validateBopomofo never throws, and whenever the lookup
\* yields no candidate reading, because the request failed or because the
\* response holds no heteronym with a reading, the verdict is
\* isCorrect = false with confidence 0.
C10_NeverThrowsLowestVerdict ==
    \A id \in Callers :
        lookups[id].pc = "done" =>
            /\ ~lookups[id].result.threw
            /\ (\/ lookups[id].how \in FetchFailures
                \/ \A k \in 1..Len(Dictionary(lookups[id].character).h) :
                       Dictionary(lookups[id].character).h[k].b = <<>>)
                   => /\ ~lookups[id].result.isCorrect
                      /\ lookups[id].result.confidence.num = 0

(***************************************************************************)
(* Claims about validateBopomofo, checked under SpecValidate.              *)
(***************************************************************************)

\* The candidate readings of a body: the readings of its heteronyms that are
\* not empty, in list order.
Readings(h) ==
    LET HasReading(heteronym) == heteronym.b # <<>>
        kept == SelectSeq(h, HasReading)
    IN  [k \in 1..Len(kept) |-> kept[k].b]

\* A phonetic string without its tone marks.
StripTones(reading) ==
    LET IsNoTone(symbol) == symbol \notin ToneMarks
    IN  SelectSeq(reading, IsNoTone)

\* C11: when the input equals one of the candidate readings of the
\* character, validateBopomofo returns isCorrect = true, the input as the
\* matched reading, and confidence 1.0.
C11_ExactMatchIsCertain ==
    (/\ verdict.called
     /\ \E k \in 1..Len(Readings(info.h)) : Readings(info.h)[k] = typed) =>
        /\ ~verdict.result.threw
        /\ verdict.result.isCorrect
        /\ verdict.result.hasReading
        /\ verdict.result.correctBopomofo = typed
        /\ verdict.result.confidence.num = verdict.result.confidence.den

C11_Witness ==
    /\ verdict.called
    /\ typed = <<"H", "A", "O", "4">>
    /\ Readings(info.h) = <<(<<"H", "A", "O", "3">>), (<<"H", "A", "O", "4">>)>>
    /\ verdict.result.isCorrect
    /\ verdict.result.correctBopomofo = typed

\* C12: when the input equals no candidate reading but its tone-stripped
\* form equals the tone-stripped form of some candidate, validateBopomofo
\* returns isCorrect = true, confidence 0.8, and the first candidate in list
\* order whose tone-stripped form matches.
C12_ToneStrippedMatch ==
    LET readings == Readings(info.h)
        matching == {k \in 1..Len(readings) :
                         StripTones(readings[k]) = StripTones(typed)}
    IN  (/\ verdict.called
         /\ \A k \in 1..Len(readings) : readings[k] # typed
         /\ matching # {}) =>
            /\ verdict.result.isCorrect
            /\ verdict.result.confidence.num * 5 = verdict.result.confidence.den * 4
            /\ verdict.result.hasReading
            /\ \E k \in matching :
                   /\ \A j \in matching : k <= j
                   /\ verdict.result.correctBopomofo = readings[k]

C12_Witness ==
    /\ verdict.called
    /\ typed = <<"H", "A", "O">>
    /\ Readings(info.h) = <<(<<"H", "A", "O", "4">>), (<<"H", "A", "O", "3">>)>>
    /\ verdict.result.correctBopomofo = <<"H", "A", "O", "4">>
    /\ verdict.result.confidence = Frac(4, 5)

\* C13: when neither the exact nor the tone-stripped match applies,
\* validateBopomofo returns as confidence the maximum of
\* similarity(input, candidate) over the candidates, as matched reading the
\* first candidate in list order attaining it, and isCorrect = (maximum >
\* 0.7): a maximum of exactly 0.7 is incorrect.
C13_BestSimilarity ==
    LET readings == Readings(info.h)
        Sim(k) == CalculateSimilarity(typed, readings[k])
        best == {k \in 1..Len(readings) :
                     \A j \in 1..Len(readings) : ~FracLess(Sim(k), Sim(j))}
    IN  (/\ verdict.called
         /\ readings # <<>>
         /\ \A k \in 1..Len(readings) :
                StripTones(readings[k]) # StripTones(typed)) =>
            \E k \in best :
                /\ \A j \in best : k <= j
                /\ verdict.result.hasReading
                /\ verdict.result.correctBopomofo = readings[k]
                /\ FracEq(verdict.result.confidence, Sim(k))
                /\ verdict.result.isCorrect <=>
                       (10 * Sim(k).num > 7 * Sim(k).den)

C13_Witness ==
    /\ verdict.called
    /\ typed = <<"X", "I", "A", "X", "K", "E", "X", "I", "N", "G">>
    /\ Readings(info.h) = <<(<<"M", "A">>), LongReading>>
    /\ verdict.result.correctBopomofo = LongReading
    /\ verdict.result.confidence = Frac(7, 10)
    /\ ~verdict.result.isCorrect

(***************************************************************************)
(* Claims about calculateSimilarity, checked under SpecSimilarity.         *)
(***************************************************************************)

\* The strings one unit-cost edit away from s (one symbol deleted, inserted
\* or substituted), over the symbols of the alphabet.
OneEdit(s, alphabet) ==
    {SubSeq(s, 1, k - 1) \o SubSeq(s, k + 1, Len(s)) : k \in 1..Len(s)}
    \cup {SubSeq(s, 1, k) \o <<x>> \o SubSeq(s, k + 1, Len(s)) :
              k \in 0..Len(s), x \in alphabet}
    \cup {[s EXCEPT ![k] = x] : k \in 1..Len(s), x \in alphabet}

RECURSIVE WithinEdits(_, _, _)
WithinEdits(s, n, alphabet) ==
    IF n = 0 THEN {s}
    ELSE LET nearer == WithinEdits(s, n - 1, alphabet)
         IN  nearer \cup UNION {OneEdit(u, alphabet) : u \in nearer}

\* The unit-cost Levenshtein distance: the least number of edits that turn
\* s into t.
EditDistance(s, t) ==
    LET alphabet == {t[k] : k \in 1..Len(t)}
    IN  CHOOSE n \in 0..(Len(s) + Len(t)) :
            /\ t \in WithinEdits(s, n, alphabet)
            /\ \A m \in 0..(n - 1) : t \notin WithinEdits(s, m, alphabet)

\* C14: calculateSimilarity(a, a) = 1.0 for every non-empty a,
\* calculateSimilarity(a, b) = calculateSimilarity(b, a), and the similarity
\* is 1 minus the unit-cost Levenshtein distance of the tone-stripped strings
\* divided by the longer tone-stripped length (where that length is not 0).
C14_SimilarityReflexiveSymmetric ==
    similarity.called =>
        LET a == StripTones(pair[1])
            b == StripTones(pair[2])
            longer == IF Len(a) >= Len(b) THEN Len(a) ELSE Len(b)
        IN  /\ pair[1] # <<>> =>
                   /\ similarity.aa.den > 0
                   /\ similarity.aa.num = similarity.aa.den
            /\ similarity.ab.den > 0 /\ similarity.ba.den > 0
            /\ similarity.ab.num * similarity.ba.den
                   = similarity.ba.num * similarity.ab.den
            /\ longer > 0 =>
                   similarity.ab.num * longer
                       = (longer - EditDistance(a, b)) * similarity.ab.den

C14_Witness ==
    /\ similarity.called
    /\ pair = <<(<<"M", "2", "A">>), (<<"A">>)>>
    /\ similarity.ab = Frac(1, 2)
    /\ similarity.ba = Frac(1, 2)
    /\ similarity.aa = Frac(1, 1)

(***************************************************************************)
(* Claims about the cache of MoedictAPI, checked under SpecMoedict.        *)
(***************************************************************************)

\* C15: once a lookup of a character has succeeded the character is cached;
\* while it is cached, every getCharacterInfo of it is served from the cache
\* and issues no request, whatever other characters are looked up in
\* between; an entry leaves the cache only by clearCache, which leaves the
\* cache empty; getCacheSize is the number of distinct characters cached and
\* is 0 right after clearCache.
C15_CacheServesUntilCleared ==
    [][/\ \A id \in Callers :
              /\ (lookups[id].pc = "fetching" /\ lookups'[id].pc = "done"
                  /\ lookups'[id].how = "fetched")
                     => lookups'[id].character \in cache'
              /\ (lookups[id].pc = "idle" /\ lookups'[id].pc = "fetching")
                     => lookups'[id].character \notin cache
              /\ (lookups[id].pc = "idle" /\ lookups'[id].pc # "idle"
                  /\ lookups'[id].character \in cache)
                     => /\ lookups'[id].pc = "done"
                        /\ lookups'[id].how = "cache"
                        /\ cache' = cache
       /\ (\E character \in cache : character \notin cache')
              => (cache' = {} /\ lookups' = lookups /\ GetCacheSize' = 0)
       /\ GetCacheSize' = Cardinality({character \in Characters :
                                            character \in cache'})]_vars

C15_Witness ==
    \E id \in Callers :
        /\ lookups[id].pc = "done"
        /\ lookups[id].how = "cache"
        /\ lookups[id].character = "ma"
        /\ {"ma", "hao", "bad"} \subseteq cache
        /\ GetCacheSize >= 3

(***************************************************************************)
(* Claims about getDueLearningRecords, checked under SpecDue.              *)
(***************************************************************************)

\* The position of the record with this id in a list of records.
PositionOf(records, id) == CHOOSE k \in 1..Len(records) : records[k].id = id

\* C16: getDueLearningRecords returns exactly the records with
\* nextReview <= now, in ascending order of nextReview, records with the same
\* nextReview in the order they have in the stored list; of records due at
\* T-1, T and T+1 with now = T it returns the first two in that order; the
\* stored list is left as it was.
C16_DueRecordsFilteredAndSorted ==
    dueResult.called =>
        LET stored == dueResult.before
            result == dueResult.records
            dueIds == {stored[k].id :
                           k \in {j \in 1..Len(stored) :
                                      stored[j].nextReview <= dueResult.at}}
        IN  /\ learningRecords = stored
            /\ {result[k].id : k \in 1..Len(result)} = dueIds
            /\ Len(result) = Cardinality(dueIds)
            /\ \A k \in 1..Len(result) :
                   result[k] = stored[PositionOf(stored, result[k].id)]
            /\ \A k \in 1..Len(result), j \in 1..Len(result) :
                   k < j =>
                       \/ result[k].nextReview < result[j].nextReview
                       \/ /\ result[k].nextReview = result[j].nextReview
                          /\ PositionOf(stored, result[k].id)
                                 < PositionOf(stored, result[j].id)

C16_Witness ==
    /\ dueResult.called
    /\ dueResult.at = 1
    /\ Len(learningRecords) = 4
    /\ [k \in 1..4 |-> learningRecords[k].nextReview] = <<2, 1, 0, 1>>
    /\ [k \in 1..Len(dueResult.records) |-> dueResult.records[k].id] = <<3, 2, 4>>

(***************************************************************************)
(* Claims about the records the sessions write, checked under SpecRecords. *)
(***************************************************************************)

\* The number of results equal to b in a sequence of graded results.
CountOf(results, b) == Cardinality({k \in 1..Len(results) : results[k] = b})

\* The number of correct results at the end of a sequence of graded results.
TrailingCorrect(results) ==
    Cardinality({k \in 1..Len(results) :
                     \A j \in k..Len(results) : results[j]})

\* C17 as stated: each completed familiarity selection raises exactly one
\* counter of the question's record by exactly 1, correctCount when the
\* graded answer was correct and incorrectCount otherwise, and no counter
\* ever decreases: every record holds in correctCount the number of completed
\* reviews of its question that were correct and in incorrectCount the
\* number of those that were not, so their sum is the number of completed
\* reviews.
C17_CountersCountReviews ==
    \A k \in 1..Len(learningRecords) :
        LET record == learningRecords[k]
        IN  /\ record.correctCount = CountOf(history[record.questionId], TRUE)
            /\ record.incorrectCount = CountOf(history[record.questionId], FALSE)
            /\ record.correctCount + record.incorrectCount
                   = CompletedReviews(record.questionId)

\* C18 as stated: after any sequence of completed reviews of a question the
\* streak of its record is >= 0 and is the number of consecutive correct
\* reviews at the end of the sequence.
C18_StreakCountsTrailingCorrect ==
    \A k \in 1..Len(learningRecords) :
        LET record == learningRecords[k]
        IN  /\ record.streak >= 0
            /\ record.streak = TrailingCorrect(history[record.questionId])

\* The records the sessions have written: those in learningRecords and those
\* on their way to the store.
WrittenRecords ==
    {learningRecords[k] : k \in 1..Len(learningRecords)}
        \cup {p.record : p \in pending}

C20_NextReviewFromStoredFields ==
    \A record \in WrittenRecords :
        \E clock \in {record.lastReviewed, record.lastReviewed + 1} :
            record.nextReview =
                SimpleCalculateNextReview(record.familiarity, record.correctCount,
                                          record.incorrectCount, record.streak,
                                          clock)

C20_Witness ==
    \E k \in 1..Len(learningRecords) :
        /\ learningRecords[k].familiarity = "mastered"
        /\ learningRecords[k].correctCount = 2
        /\ learningRecords[k].incorrectCount = 0
        /\ learningRecords[k].streak = 2
        /\ learningRecords[k].nextReview
               = learningRecords[k].lastReviewed + 1 + 14 * TicksPerDay

\* C21 as stated: after any sequence and interleaving of study-flow
\* familiarity selections, a second selection made while the first write is
\* still awaiting the store included, there is at most one learning record
\* per question: a record is created only when the question has none, and
\* every later answer updates that record.
C21_OneRecordPerQuestion ==
    /\ \A k \in 1..Len(learningRecords), j \in 1..Len(learningRecords) :
           learningRecords[k].questionId = learningRecords[j].questionId
               => k = j
    /\ \A p \in pending :
           p.kind = "create"
               => /\ ~HasLearningRecord(learningRecords, p.questionId)
                  /\ \A other \in pending :
                         (other.kind = "create"
                          /\ other.questionId = p.questionId) => other = p

(***************************************************************************)
(* Claims about overlapping lookups, checked under SpecMoedict.            *)
(***************************************************************************)

\* C22: a getCharacterInfo call for a character that is not cached issues
\* its own request, also while another call is waiting for a request for
\* the same character; each of the two can complete, and each completion
\* writes the cache: afterwards the cache holds the character once, so the
\* second write leaves getCacheSize as the first left it.
C22_OverlappingLookupsNotDeduplicated ==
    [][\A id \in Callers :
           /\ (lookups[id].pc = "idle" /\ lookups'[id].pc # "idle"
               /\ lookups'[id].character \notin cache)
                  => /\ lookups'[id].pc = "fetching"
                     /\ \A other \in Callers \ {id} : lookups'[other] = lookups[other]
           /\ (lookups[id].pc = "fetching" /\ lookups'[id].pc = "done"
               /\ lookups'[id].how = "fetched")
                  => /\ cache' = cache \cup {lookups[id].character}
                     /\ GetCacheSize' =
                            IF lookups[id].character \in cache
                            THEN GetCacheSize ELSE GetCacheSize + 1]_vars

\* Caller 2 began while "ma" was not cached and no clearCache ran since, so
\* the entry is the one caller 1's own request wrote while caller 2 waited.
C22_Witness ==
    /\ lookups[1].pc = "done" /\ lookups[1].how = "fetched"
    /\ lookups[1].character = "ma"
    /\ lookups[2].pc = "fetching" /\ lookups[2].character = "ma"
    /\ staleLookups = {}
    /\ cache = {"ma"}
    /\ GetCacheSize = 1

\* C28: a getCharacterInfo call whose request fails (network error, status
\* not OK, body not JSON) returns null, which validateBopomofo answers with
\* the lowest verdict, and leaves the cache and its size as they were; a
\* character is in the cache only through a request that succeeded, so the
\* next lookup of a character whose request failed issues a new request,
\* and when that one succeeds the character is cached.
C28_FailureIsNotCached ==
    [][/\ \A id \in Callers :
              /\ (lookups[id].pc = "fetching" /\ lookups'[id].pc = "done"
                  /\ lookups'[id].how \in FetchFailures)
                     => /\ cache' = cache
                        /\ GetCacheSize' = GetCacheSize
                        /\ lookups'[id].result = LowestVerdict
              /\ (lookups[id].pc = "idle" /\ lookups'[id].pc = "done")
                     => lookups'[id].character \in cache
              /\ (lookups[id].pc = "fetching" /\ lookups'[id].pc = "done"
                  /\ lookups'[id].how \notin FetchFailures)
                     => /\ lookups'[id].how = "fetched"
                        /\ lookups'[id].character \in cache'
       /\ \A character \in cache' \ cache :
              \E id \in Callers :
                  /\ lookups[id].pc = "fetching"
                  /\ lookups[id].character = character
                  /\ lookups'[id].how = "fetched"]_vars

\* A request for "ma" has failed, and a request for "ma" has been issued
\* all the same, has succeeded and has cached it.
C28_Witness ==
    /\ lookups[1].pc = "done" /\ lookups[1].how = "status not ok"
    /\ lookups[1].character = "ma" /\ lookups[1].result = LowestVerdict
    /\ lookups[2].pc = "done" /\ lookups[2].how = "fetched"
    /\ lookups[2].character = "ma"
    /\ cache = {"ma"}

\* C29 as stated: once clearCache has returned, the cache holds only entries
\* of lookups that began after it: a lookup that was waiting for its
\* request when clearCache ran does not put its entry back when the request
\* completes, so getCacheSize stays 0 until a lookup that began after the
\* clear succeeds.
C29_ClearedCacheStaysClear ==
    [][\A id \in staleLookups :
           (lookups[id].pc = "fetching" /\ lookups'[id].pc = "done")
               => /\ cache' = cache
                  /\ GetCacheSize' = GetCacheSize]_vars

(***************************************************************************)
(* The verdict of validateBopomofo as a whole, checked under SpecValidate. *)
(***************************************************************************)

\* C30: for every candidate list and input the verdict of validateBopomofo
\* has 0 <= confidence <= 1; confidence is 1.0 exactly when the input equals
\* a candidate reading, so the similarity fallback (no exact and no
\* tone-stripped match) never yields 1.0; and isCorrect = true implies
\* confidence > 0.7 and a matched reading that is a candidate or the input.
C30_VerdictWellFormed ==
    verdict.called =>
        LET result == verdict.result
            readings == Readings(info.h)
            exact == \E k \in 1..Len(readings) : readings[k] = typed
            stripped == \E k \in 1..Len(readings) :
                            StripTones(readings[k]) = StripTones(typed)
        IN  /\ ~result.threw
            /\ result.confidence.den > 0
            /\ ~FracLess(result.confidence, Frac(0, 1))
            /\ ~FracLess(Frac(1, 1), result.confidence)
            /\ FracEq(result.confidence, Frac(1, 1)) <=> exact
            /\ (~exact /\ ~stripped) => FracLess(result.confidence, Frac(1, 1))
            /\ result.isCorrect =>
                   /\ FracLess(Frac(7, 10), result.confidence)
                   /\ result.hasReading
                   /\ \/ result.correctBopomofo = typed
                      \/ \E k \in 1..Len(readings) :
                             readings[k] = result.correctBopomofo

\* The fallback graded an input as correct: two candidates, neither equal to
\* the input with or without tone marks, the nearer one at similarity 0.8.
C30_Witness ==
    /\ verdict.called
    /\ Len(Readings(info.h)) = 2
    /\ typed = <<"X", "I", "A", "O", "K", "E", "X", "I", "N", "G">>
    /\ verdict.result.isCorrect
    /\ verdict.result.correctBopomofo = LongReading
    /\ FracEq(verdict.result.confidence, Frac(4, 5))
    /\ \A k \in 1..2 : StripTones(Readings(info.h)[k]) # StripTones(typed)

(***************************************************************************)
(* checkAnswer and the question it grades, checked under SpecGrade.        *)
(***************************************************************************)

\* C24 as stated: grading an answer never modifies the question: after
\* checkAnswer on a question of any type the options, the correct answer and
\* the items of the question, the order of the items of a sort question
\* included, are what they were before the call.
C24_GradingLeavesQuestion ==
    [][graded'.flow # "none" => question' = question]_vars

(***************************************************************************)
(* What writes a learning record, checked under SpecRecords.               *)
(***************************************************************************)

RatedAllPresented ==
    /\ view.name = "review" /\ view'.name = "home"
    /\ pending' = {}
    /\ pending' # pending \/ ~HasCurrentQuestion
    /\ \A q \in reviewSession.presented : Len(history'[q]) = 1
    /\ \A q \in QuestionIds \ reviewSession.presented : Len(history'[q]) = 0

\* C25 as stated: in a review session in which the learner answers and
\* rates every question presented, every question whose record was due when
\* the session started has been presented when the session returns to the
\* home view: rating a question, which takes it off the recomputed due list,
\* never makes the session skip another due question.
C25_EveryDueQuestionPresented ==
    [][RatedAllPresented
           => reviewSession.dueAtStart \subseteq reviewSession.presented]_vars

(***************************************************************************)
(* Phonetic questions in the study flow, checked under SpecPhonetic.       *)
(***************************************************************************)

\* The trimmed answer equals the target string of the question.
ExactlyRight(questionId, answer) ==
    /\ answer # Null
    /\ Trim(answer.v) =
           IF PhoneticQuestion(questionId).type = "char-to-bopomofo"
           THEN PhoneticQuestion(questionId).correctBopomofo
           ELSE <<PhoneticQuestion(questionId).correctChar>>

\* C23: for the two phonetic question types the correctness shown is the
\* exact equality of the trimmed answer with the target string of the
\* question, and the record a familiarity selection writes has the
\* counters, the streak and nextReview that follow from that correctness;
\* a validateBopomofo call that returns, with whatever verdict, or throws,
\* at whatever moment, changes neither isCorrect nor any record written or
\* on its way to the store.
C23_PhoneticGradedByExactEquality ==
    [][/\ (view.name = "study" /\ HasCurrentQuestion /\ view.showAnswer)
              => view.isCorrect = ExactlyRight(CurrentQuestion, userAnswer)
       /\ \A p \in pending' \ pending :
              LET right == ExactlyRight(p.questionId, userAnswer)
                  hasRecord == HasLearningRecord(learningRecords, p.questionId)
                  before == IF hasRecord
                            THEN GetLearningRecord(learningRecords, p.questionId)
                            ELSE LearningRecord(0, p.questionId, "unanswered",
                                                0, 0, 0, 0, 0)
              IN  /\ p.isCorrect = right
                  /\ p.record.correctCount
                         = before.correctCount + (IF right THEN 1 ELSE 0)
                  /\ p.record.incorrectCount
                         = before.incorrectCount + (IF right THEN 0 ELSE 1)
                  /\ p.record.streak = IF right THEN before.streak + 1 ELSE 0
                  /\ p.record.nextReview =
                         SimpleCalculateNextReview(
                             p.record.familiarity, p.record.correctCount,
                             p.record.incorrectCount, p.record.streak, now')
       /\ (validations' # validations /\ validations' \subseteq validations
           /\ view'.name = "study")
              => /\ view' = view
                 /\ learningRecords' = learningRecords
                 /\ pending' = pending
                 /\ history' = history]_vars

\* The validator has passed "MA" for q1 while the answer is shown as wrong,
\* and the selection on its way to the store counts it as incorrect.
C23_Witness ==
    /\ view.name = "study" /\ view.index = 0 /\ view.showAnswer
    /\ userAnswer = Text(<<"M", "A">>)
    /\ ~view.isCorrect
    /\ apiValidation.held /\ apiValidation.isCorrect
    /\ apiValidation.input = <<"M", "A">>
    /\ \E p \in pending :
           /\ p.questionId = "q1" /\ ~p.isCorrect
           /\ p.record.incorrectCount = 1 /\ p.record.correctCount = 0
           /\ p.record.streak = 0

\* C26 as stated: in the study flow, whenever a validation result is held
\* while an answer is shown (the result is displayed with the answer), it
\* was computed for the current question and the answer now submitted: a validateBopomofo call that returns after a retry or after
\* the move to the next question never sets the result held for the later
\* answer or question, and of two calls under way the older never
\* overwrites the newer.
C26_ValidationIsForShownAnswer ==
    (view.name = "study" /\ HasCurrentQuestion /\ view.showAnswer
     /\ apiValidation.held) =>
        /\ apiValidation.index = view.index
        /\ userAnswer = Text(apiValidation.input)

====
